---- MODULE Spec2Model ----
(***************************************************************************)
(* Model of the WiFi profile/credential retrieval engine:                  *)
(*   CommandExecutor.run, NetshWiFiProvider (list_profiles,                *)
(*   _parse_netsh_output, get_password) and WiFiScannerService.scan with   *)
(*   its ThreadPoolExecutor(max_workers=10) fan-out.                       *)
(*   Also Controller.start_scan_thread with its worker thread, the         *)
(*   per-locale NetshWifiProvider of infrastructure/netsh_provider.py,     *)
(*   ReportService (the credential lines and the report text) and the      *)
(*   GUI: start_scan, the update_ui callbacks, spinner_anim and            *)
(*   guardar_archivo on the Tk event loop, beside the worker thread.       *)
(*                                                                         *)
(* Text is modelled as it is processed: a text is a sequence of lines, a   *)
(* line is a sequence of atoms (a word, a punctuation mark or a single     *)
(* character).  Profile names are spelled with single-character atoms so   *)
(* that Python's codepoint comparison of str can be computed.              *)
(***************************************************************************)
EXTENDS Integers, Sequences, FiniteSets, TLC

VARIABLES
    pc,           \* position of the thread that runs scan() ("idle": no scan is running)
    listing,      \* the host's listing command: how it ends, the profiles it prints (input)
    host,         \* the ways the host's per-profile query command can end (input)
    profiles,     \* the list returned by list_profiles()
    status,       \* per submitted future: "queued" | "running" | "done" | "collected"
    answer,       \* per future: how the query command of its get_password call ended
    future,       \* per future: the outcome stored in it (return value or exception)
    credentials,  \* the list scan() accumulates and finally returns
    log,          \* the log records emitted so far (set of [site, profile, level])
    calls,        \* the argument vectors CommandExecutor.run was invoked with (a bag)
    qin,          \* a single provider call: the command result it receives
    qout,         \* a single provider call: its outcome (NoOutcome before the call)
    qes,          \* the outcome of the same call on a Spanish-language host
    is_scanning,  \* Controller.is_scanning
    admin,        \* what WindowsSystemValidator.is_admin() answers (input)
    reported,     \* the callbacks the Controller has invoked, in order
    clicks,       \* number of start_scan_thread calls made so far
    workers,      \* number of _scan_worker threads that were started and have not ended
    gui,          \* the GUI object: buttons_enabled, text_box, app_state.credentials
                  \* and app_state.spinner_index
    tk,           \* the Tk event loop: position of the UI thread, pending callbacks
    disk          \* the reports guardar_archivo has written

scanVars == <<pc, listing, host, profiles, status, answer, future, credentials, log>>
queryVars == <<qin, qout>>
callVars == <<qin, qout, qes>>
ctlVars == <<is_scanning, admin, reported, clicks>>
guiVars == <<gui, tk, disk>>
vars == <<pc, listing, host, profiles, status, answer, future, credentials, log, calls,
          qin, qout, qes, is_scanning, admin, reported, clicks, workers, gui, tk, disk>>

(***************************************************************************)
(* Bounds of the model.                                                    *)
(***************************************************************************)
\* longest listing output, in profile lines
MaxProfiles == 2
\* longest per-profile query output, in field lines
MaxFieldLines == 2
\* number of profiles listed when the worker pool is exercised
PoolProfiles == 11
\* number of start_scan_thread calls the user interface makes
MaxClicks == 3
\* longest listing output given to a single list_profiles call, in lines
MaxListingLines == 3

(***************************************************************************)
(* Strings.                                                                *)
(***************************************************************************)
IsSpace(a) == a = " "

RECURSIVE LStrip(_)
LStrip(s) == IF s # <<>> /\ IsSpace(Head(s)) THEN LStrip(Tail(s)) ELSE s

RECURSIVE RStrip(_)
RStrip(s) ==
    IF s # <<>> /\ IsSpace(s[Len(s)]) THEN RStrip(SubSeq(s, 1, Len(s) - 1)) ELSE s

\* str.strip() on one line
Strip(s) == RStrip(LStrip(s))

\* str.lower(), atom by atom
LowerAtom(a) ==
    CASE a = "All" -> "all"
      [] a = "ALL" -> "all"
      [] a = "User" -> "user"
      [] a = "Profile" -> "profile"
      [] a = "Perfil" -> "perfil"
      [] a = "Todos" -> "todos"
      [] a = "Is" -> "is"
      [] a = "Not" -> "not"
      [] a = "Found" -> "found"
      [] a = "No" -> "no"
      [] a = "Key" -> "key"
      [] a = "Content" -> "content"
      [] a = "B" -> "b"
      [] OTHER -> a

Lower(s) == [i \in 1..Len(s) |-> LowerAtom(s[i])]

\* Python's `sub in s` on one line
Contains(s, sub) ==
    \E p \in 1..(Len(s) - Len(sub) + 1) : SubSeq(s, p, p + Len(sub) - 1) = sub

\* `sub in text` for a marker without a line break: some line contains it
TextContains(text, sub) == \E i \in 1..Len(text) : Contains(text[i], sub)

LowerText(text) == [i \in 1..Len(text) |-> Lower(text[i])]

\* codepoints of the characters profile names are spelled with
Code(a) ==
    CASE a = " " -> 32
      [] a = "B" -> 66
      [] a = "a" -> 97
      [] a = "b" -> 98
      [] OTHER -> 0

\* Python's s <= t on str: lexicographic by codepoint, a proper prefix first
RECURSIVE StrLeq(_, _)
StrLeq(s, t) ==
    IF s = <<>> THEN TRUE
    ELSE IF t = <<>> THEN FALSE
    ELSE IF Code(Head(s)) # Code(Head(t)) THEN Code(Head(s)) < Code(Head(t))
    ELSE StrLeq(Tail(s), Tail(t))

(***************************************************************************)
(* Values: Optional[str] passwords, localized strings, dictionaries.       *)
(***************************************************************************)
\* Python's None
PyNone == [tag |-> "None", key |-> "", text |-> <<>>]

\* a str read from the utility's output
PyStr(text) == [tag |-> "str", key |-> "", text |-> text]

\* LocalizationManager.get_string(key, profile_name=arg): the translation of
\* `key`, formatted with `arg` (<<>> when the call passes no argument)
get_string(key, arg) == [tag |-> "str", key |-> key, text |-> arg]

\* the empty str
NoText == <<>>

EmptyDict == [k \in {} |-> <<>>]

\* d.setdefault(k, v): inserts, but keeps the value of an existing key
DictPutIfAbsent(d, k, v) ==
    [x \in (DOMAIN d) \cup {k} |-> IF x \in DOMAIN d THEN d[x] ELSE v]

\* d[k] = v on a dict: inserts, or overwrites the value of an existing key
DictPut(d, k, v) == [x \in (DOMAIN d) \cup {k} |-> IF x = k THEN v ELSE d[x]]

(***************************************************************************)
(* Command Runner.  A command result is what the child process does:       *)
(* kind "exit0" | "nonzero" | "oserror", with its two output streams.      *)
(***************************************************************************)
CmdResult(kind, out, err) == [kind |-> kind, stdout |-> out, stderr |-> err]

IsBlank(line) == Strip(line) = <<>>

RECURSIVE LStripText(_)
LStripText(text) ==
    IF text = <<>> THEN <<>>
    ELSE IF IsBlank(Head(text)) THEN LStripText(Tail(text))
    ELSE <<LStrip(Head(text))>> \o Tail(text)

RECURSIVE RStripText(_)
RStripText(text) ==
    IF text = <<>> THEN <<>>
    ELSE IF IsBlank(text[Len(text)]) THEN RStripText(SubSeq(text, 1, Len(text) - 1))
    ELSE SubSeq(text, 1, Len(text) - 1) \o <<RStrip(text[Len(text)])>>

\* str.strip() on a whole output; the result is given as its splitlines()
StripText(text) == RStripText(LStripText(text))

\* CommandExecutor.run: the stripped stdout on exit code 0; CalledProcessError with
\* both streams as captured on a non-zero exit; any other failure propagates
CommandExecutor_run(res) ==
    IF res.kind = "exit0"
    THEN [kind |-> "return", stdout |-> StripText(res.stdout), stderr |-> <<>>]
    ELSE IF res.kind = "nonzero"
    THEN [kind |-> "CalledProcessError", stdout |-> res.stdout, stderr |-> res.stderr]
    ELSE [kind |-> "OSError", stdout |-> <<>>, stderr |-> <<>>]

(***************************************************************************)
(* NetshWiFiProvider.                                                      *)
\* a key table that knows the English output only
NETSH_KEYS_english_only ==
    [profile_not_found   |-> << <<"is", " ", "not", " ", "found">> >>,
     key_content         |-> << <<"Key", " ", "Content">> >>,
     security_key        |-> << <<"Security", " ", "key">> >>,
     security_key_absent |-> << <<"Absent">> >>,
     authentication      |-> << <<"Authentication">> >>,
     auth_open           |-> << <<"Open">> >>]

(***************************************************************************)
NETSH_KEYS ==
    [profile_not_found   |-> << <<"is", " ", "not", " ", "found">>,
                                <<"no", " ", "se", " ", "encuentra">> >>,
     key_content         |-> << <<"Key", " ", "Content">>,
                                <<"Contenido", " ", "de", " ", "la", " ", "clave">> >>,
     security_key        |-> << <<"Security", " ", "key">>,
                                <<"Clave", " ", "de", " ", "seguridad">> >>,
     security_key_absent |-> << <<"Absent">>, <<"Ausente">> >>,
     authentication      |-> << <<"Authentication">>, <<"Autenticación">> >>,
     auth_open           |-> << <<"Open">>, <<"Abierta">> >>]

\* the argument vector of the listing invocation (each argument is a str)
list_command == << <<"netsh">>, <<"wlan">>, <<"show">>, <<"profiles">> >>

\* str.split(): the words of s
RECURSIVE SplitWords(_, _)
SplitWords(s, word) ==
    IF s = <<>> THEN (IF word = <<>> THEN <<>> ELSE <<word>>)
    ELSE IF IsSpace(Head(s))
    THEN (IF word = <<>> THEN <<>> ELSE <<word>>) \o SplitWords(Tail(s), <<>>)
    ELSE SplitWords(Tail(s), Append(word, Head(s)))

\* a query vector built by splitting a command line on whitespace
query_command_split(profile) ==
    << <<"netsh">>, <<"wlan">>, <<"show">>, <<"profile">> >>
        \o SplitWords(profile, <<>>) \o << <<"key=clear">> >>

\* the argument vector of the per-profile query invocation
query_command(profile) ==
    << <<"netsh">>, <<"wlan">>, <<"show">>, <<"profile">>, profile, <<"key=clear">> >>

\* the alternatives of profile_regex, lower-cased (the regex is IGNORECASE)
ProfileLabels ==
    { <<"all", " ", "user", " ", "profile">>,
      <<"todos", " ", "los", " ", "perfiles", " ", "de", " ", "usuario">>,
      <<"perfil", " ", "de", " ", "todos", " ", "los", " ", "usuarios">> }

\* the colons of `line` that end a match of  label \s* :
LabelColons(line) ==
    { e \in 1..Len(line) :
        /\ line[e] = ":"
        /\ \E lab \in ProfileLabels : \E p \in 1..e :
              /\ p + Len(lab) <= e
              /\ Lower(SubSeq(line, p, p + Len(lab) - 1)) = lab
              /\ \A k \in (p + Len(lab))..(e - 1) : IsSpace(line[k]) }

Max(S) == CHOOSE x \in S : \A y \in S : y <= x

\* profile_regex.search(line) and match.group(1).strip(): the leading greedy .*
\* makes the last label occurrence the one matched; NoMatch when there is none
NoMatch == <<"<no match>">>
profile_regex_name(line) ==
    IF LabelColons(line) = {} THEN NoMatch
    ELSE Strip(SubSeq(line, Max(LabelColons(line)) + 1, Len(line)))

RECURSIVE profile_names(_)
profile_names(text) ==
    IF text = <<>> THEN <<>>
    ELSE LET name == profile_regex_name(Head(text))
         IN  IF name # NoMatch /\ name # <<>>
             THEN <<name>> \o profile_names(Tail(text))
             ELSE profile_names(Tail(text))

\* a listing that answers a failed command with an empty list
list_profiles_swallowing(res) ==
    LET r == CommandExecutor_run(res)
    IN  [kind |-> "return", exc |-> "",
         value |-> IF r.kind = "return" THEN profile_names(r.stdout) ELSE <<>>]

\* NetshWiFiProvider.list_profiles: the names, or the exception of the runner
list_profiles(res) ==
    LET r == CommandExecutor_run(res)
    IN  IF r.kind = "return"
        THEN [kind |-> "return", value |-> profile_names(r.stdout), exc |-> ""]
        ELSE [kind |-> "raise", value |-> <<>>, exc |-> r.kind]

Colons(line) == { c \in 1..Len(line) : line[c] = ":" }
Min(S) == CHOOSE x \in S : \A y \in S : x <= y

\* NetshWiFiProvider._parse_netsh_output: label up to the first colon, value after it
RECURSIVE parse_from(_, _)
parse_from(text, parsed_data) ==
    IF text = <<>> THEN parsed_data
    ELSE LET line == Head(text)
         IN  IF Colons(line) = {} THEN parse_from(Tail(text), parsed_data)
             ELSE LET c == Min(Colons(line))
                      key == Strip(SubSeq(line, 1, c - 1))
                      value == Strip(SubSeq(line, c + 1, Len(line)))
                  IN  parse_from(Tail(text), DictPut(parsed_data, key, value))

parse_netsh_output(text) == parse_from(text, EmptyDict)

\* any(val in s for val in vals)
AnyIn(vals, s) == \E n \in 1..Len(vals) : Contains(s, vals[n])

\* the keys of `keys` (an ordered list) that the dict holds, as list positions
Present(keys, details) == { n \in 1..Len(keys) : keys[n] \in DOMAIN details }

\* a decision that tests for an open network before it looks for the key
classify_open_first(profile, details) ==
    LET kc == Present(NETSH_KEYS.key_content, details)
        sk == { n \in Present(NETSH_KEYS.security_key, details) :
                  AnyIn(NETSH_KEYS.security_key_absent,
                        details[NETSH_KEYS.security_key[n]]) }
    IN  IF sk # {}
        THEN [kind |-> "raise", exc |-> "OpenNetworkException", value |-> PyNone]
        ELSE IF kc # {}
        THEN [kind |-> "return", exc |-> "",
              value |-> PyStr(details[NETSH_KEYS.key_content[Min(kc)]])]
        ELSE [kind |-> "raise", exc |-> "AdminRightsRequiredError",
              value |-> get_string("error_password_not_found_admin_required", profile)]

\* a decision that gives up with None when no key and no open signal is found
classify_none_when_unread(profile, details) ==
    LET kc == Present(NETSH_KEYS.key_content, details)
        sk == { n \in Present(NETSH_KEYS.security_key, details) :
                  AnyIn(NETSH_KEYS.security_key_absent,
                        details[NETSH_KEYS.security_key[n]]) }
        au == Present(NETSH_KEYS.authentication, details)
    IN  IF kc # {}
        THEN [kind |-> "return", exc |-> "",
              value |-> PyStr(details[NETSH_KEYS.key_content[Min(kc)]])]
        ELSE IF sk # {}
        THEN [kind |-> "raise", exc |-> "OpenNetworkException", value |-> PyNone]
        ELSE IF au # {} /\ AnyIn(NETSH_KEYS.auth_open,
                                 details[NETSH_KEYS.authentication[Min(au)]])
        THEN [kind |-> "raise", exc |-> "OpenNetworkException", value |-> PyNone]
        ELSE [kind |-> "return", exc |-> "", value |-> PyNone]

\* get_password after a successful command: the decision on the parsed fields
classify(profile, details) ==
    LET kc == Present(NETSH_KEYS.key_content, details)
        sk == { n \in Present(NETSH_KEYS.security_key, details) :
                  AnyIn(NETSH_KEYS.security_key_absent,
                        details[NETSH_KEYS.security_key[n]]) }
        au == Present(NETSH_KEYS.authentication, details)
    IN  IF kc # {}
        THEN [kind |-> "return", exc |-> "",
              value |-> PyStr(details[NETSH_KEYS.key_content[Min(kc)]])]
        ELSE IF sk # {}
        THEN [kind |-> "raise", exc |-> "OpenNetworkException", value |-> PyNone]
        ELSE IF au # {} /\ AnyIn(NETSH_KEYS.auth_open,
                                 details[NETSH_KEYS.authentication[Min(au)]])
        THEN [kind |-> "raise", exc |-> "OpenNetworkException", value |-> PyNone]
        ELSE [kind |-> "raise", exc |-> "AdminRightsRequiredError",
              value |-> get_string("error_password_not_found_admin_required", profile)]

\* a test that looks for the marker in both captured streams
not_found_marker_any_stream(e) ==
    \E n \in 1..Len(NETSH_KEYS.profile_not_found) :
        \/ TextContains(LowerText(e.stdout), NETSH_KEYS.profile_not_found[n])
        \/ TextContains(LowerText(e.stderr), NETSH_KEYS.profile_not_found[n])

\* the `any(msg in e.stdout.lower() ...)` test of the CalledProcessError handler
not_found_marker(e) ==
    \E n \in 1..Len(NETSH_KEYS.profile_not_found) :
        TextContains(LowerText(e.stdout), NETSH_KEYS.profile_not_found[n])

\* NetshWiFiProvider.get_password: the outcome of the call (its return value, or
\* the exception it raises with the exception's message as value)
get_password(profile, res) ==
    LET r == CommandExecutor_run(res)
    IN  IF r.kind = "CalledProcessError"
        THEN [kind |-> "return", exc |-> "", value |-> PyNone]
        ELSE IF r.kind = "return"
        THEN classify(profile, parse_netsh_output(r.stdout))
        ELSE [kind |-> "raise", exc |-> r.kind, value |-> PyNone]

\* the severity get_password logs at ("none": it logs nothing)
get_password_level(res) ==
    LET r == CommandExecutor_run(res)
    IN  IF r.kind = "CalledProcessError"
        THEN IF not_found_marker(r) THEN "info" ELSE "warning"
        ELSE "none"

(***************************************************************************)
(* NetshWifiProvider (infrastructure/netsh_provider.py): the provider with  *)
(* one pair of patterns per system locale, applied to the whole output.     *)
(***************************************************************************)
\* \s of a pattern applied to a whole output: blanks and line breaks
IsWhite(a) == a = " " \/ a = "\n"

\* an output as one str: its lines joined by line breaks
RECURSIVE Join(_)
Join(text) ==
    IF text = <<>> THEN <<>>
    ELSE IF Len(text) = 1 THEN text[1]
    ELSE text[1] \o <<"\n">> \o Join(Tail(text))

\* locale.getdefaultlocale()[0].split('_')[0].lower(), 'en' without a locale
lang_code(system_locale) ==
    CASE system_locale = "es_ES" -> "es"
      [] system_locale = "en_US" -> "en"
      [] system_locale = "ja_JP" -> "ja"
      [] OTHER -> "en"

localized_strings ==
    [en |-> [profile_prefix |-> <<"All", " ", "User", " ", "Profile">>,
             key_content_prefix |-> <<"Key", " ", "Content">>],
     es |-> [profile_prefix |-> <<"Perfil", " ", "de", " ", "todos", " ", "los", " ",
                                  "usuarios">>,
             key_content_prefix |-> <<"Contenido", " ", "de", " ", "la", " ", "clave">>],
     fr |-> [profile_prefix |-> <<"Profil", " ", "de", " ", "tous", " ", "les", " ",
                                  "utilisateurs">>,
             key_content_prefix |-> <<"Contenu", " ", "de", " ", "la", " ", "clé">>],
     de |-> [profile_prefix |-> <<"Benutzerprofil">>,
             key_content_prefix |-> <<"Schlüsselinhalt">>],
     it |-> [profile_prefix |-> <<"Profilo", " ", "di", " ", "tutti", " ", "gli", " ",
                                  "utenti">>,
             key_content_prefix |-> <<"Contenuto", " ", "chiave">>],
     pt |-> [profile_prefix |-> <<"Perfil", " ", "de", " ", "todos", " ", "os", " ",
                                  "usuários">>,
             key_content_prefix |-> <<"Conteúdo", " ", "da", " ", "chave">>]]

\* localized_strings.get(lang_code, localized_strings['en'])
current_lang_strings(system_locale) ==
    IF lang_code(system_locale) \in DOMAIN localized_strings
    THEN localized_strings[lang_code(system_locale)]
    ELSE localized_strings.en

\* the first position from i on that holds no white space (Len + 1 if none)
RECURSIVE SkipWhite(_, _)
SkipWhite(flat, i) ==
    IF i <= Len(flat) /\ IsWhite(flat[i]) THEN SkipWhite(flat, i + 1) ELSE i

\* the first position from i on that holds a line break (Len + 1 if none)
RECURSIVE LineEnd(_, _)
LineEnd(flat, i) ==
    IF i <= Len(flat) /\ flat[i] # "\n" THEN LineEnd(flat, i + 1) ELSE i

\* the pattern  prefix\s*:\s*(.*)  matches at position p of flat
PrefixMatchesAt(flat, prefix, p) ==
    /\ p + Len(prefix) - 1 <= Len(flat)
    /\ SubSeq(flat, p, p + Len(prefix) - 1) = prefix
    /\ SkipWhite(flat, p + Len(prefix)) <= Len(flat)
    /\ flat[SkipWhite(flat, p + Len(prefix))] = ":"

\* group 1 of that match, and the position behind the match
PrefixGroupStart(flat, prefix, p) ==
    SkipWhite(flat, SkipWhite(flat, p + Len(prefix)) + 1)
PrefixGroup(flat, prefix, p) ==
    SubSeq(flat, PrefixGroupStart(flat, prefix, p),
           LineEnd(flat, PrefixGroupStart(flat, prefix, p)) - 1)

\* re.Pattern.findall: group 1 of the successive matches from position p on
RECURSIVE findall_from(_, _, _)
findall_from(flat, prefix, p) ==
    IF p > Len(flat) THEN <<>>
    ELSE IF PrefixMatchesAt(flat, prefix, p)
    THEN <<PrefixGroup(flat, prefix, p)>>
             \o findall_from(flat, prefix, LineEnd(flat, PrefixGroupStart(flat, prefix, p)))
    ELSE findall_from(flat, prefix, p + 1)

\* the argument vector NetshWifiProvider.get_password runs
NetshWifiProvider_query_command(profile) ==
    << <<"netsh">>, <<"wlan">>, <<"show">>, <<"profile">>,
       <<"name=", "\"">> \o profile \o <<"\"">>, <<"key=clear">> >>

\* a listing that lets the failure of the command through
NetshWifiProvider_list_profiles_raising(system_locale, res) ==
    LET r == CommandExecutor_run(res)
    IN  IF r.kind = "return"
        THEN [kind |-> "return", exc |-> "",
              value |-> findall_from(Join(r.stdout),
                                     current_lang_strings(system_locale).profile_prefix, 1)]
        ELSE [kind |-> "raise", exc |-> r.kind, value |-> <<>>]

\* NetshWifiProvider.list_profiles: every exception is answered with []
NetshWifiProvider_list_profiles(system_locale, res) ==
    LET r == CommandExecutor_run(res)
    IN  [kind |-> "return", exc |-> "",
         value |-> IF r.kind = "return"
                   THEN findall_from(Join(r.stdout),
                                     current_lang_strings(system_locale).profile_prefix, 1)
                   ELSE <<>>]

\* a lookup that answers a failed command with an empty password
NetshWifiProvider_get_password_blank(system_locale, profile, res) ==
    LET r == CommandExecutor_run(res)
        flat == Join(r.stdout)
        prefix == current_lang_strings(system_locale).key_content_prefix
        hits == { p \in 1..Len(flat) : PrefixMatchesAt(flat, prefix, p) }
    IN  [kind |-> "return", exc |-> "",
         value |-> IF r.kind = "return" /\ hits # {}
                   THEN PyStr(Strip(PrefixGroup(flat, prefix, Min(hits))))
                   ELSE PyStr(<<>>)]

\* NetshWifiProvider.get_password: key_regex.search on the output, group 1
\* stripped; None without a match and on every exception
NetshWifiProvider_get_password(system_locale, profile, res) ==
    LET r == CommandExecutor_run(res)
        flat == Join(r.stdout)
        prefix == current_lang_strings(system_locale).key_content_prefix
        hits == { p \in 1..Len(flat) : PrefixMatchesAt(flat, prefix, p) }
    IN  [kind |-> "return", exc |-> "",
         value |-> IF r.kind = "return" /\ hits # {}
                   THEN PyStr(Strip(PrefixGroup(flat, prefix, Min(hits))))
                   ELSE PyNone]

(***************************************************************************)
(* Exception classes (core/exceptions.py and the built-ins met here).      *)
(***************************************************************************)
Base(cls) ==
    CASE cls = "AdminRightsRequiredError" -> "PasswordNotFoundError"
      [] cls = "PasswordNotFoundError" -> "ScannerServiceException"
      [] cls = "ProfileNotFoundError" -> "ScannerServiceException"
      [] cls = "ScannerServiceException" -> "CoreException"
      [] OTHER -> "Exception"

RECURSIVE IsInstance(_, _)
IsInstance(cls, of) ==
    IF cls = of THEN TRUE
    ELSE IF cls = "Exception" THEN FALSE
    ELSE IsInstance(Base(cls), of)

(***************************************************************************)
(* Inputs: what the utility prints on the modelled hosts.                  *)
(***************************************************************************)
\* all sequences over S of length at most n
SeqUpTo(S, n) == UNION { [1..k -> S] : k \in 0..n }

Pad == <<" ", " ">>

\* a line of `netsh wlan show profiles` naming a profile
ProfileLine(name) ==
    Pad \o <<"All", " ", "User", " ", "Profile", " ", " ", ":", " ">> \o name

\* the lines the utility prints before the profile lines
Preamble ==
    << <<>>,
       <<"Profiles", " ", "on", " ", "interface", " ", "Wi-Fi", ":">>,
       <<>>,
       <<"User", " ", "profiles">>,
       <<"-", "-", "-">> >>

Names == { <<"a">>, <<"B">>, <<"a", "b">>, <<"a", " ", "b">> }

ServiceDown ==
    << <<"The", " ", "service", " ", "is", " ", "not", " ", "running", ".">> >>

\* how the listing command can end: [kind, names], the profiles it prints in order
ListingOf(names) == [kind |-> "exit0", names |-> names]

ListingFailures ==
    { [kind |-> "nonzero", names |-> <<>>], [kind |-> "oserror", names |-> <<>>] }

ListingResults ==
    ListingFailures \cup { ListingOf(names) : names \in SeqUpTo(Names, MaxProfiles) }

\* the result of `netsh wlan show profiles` on a host whose listing ends as `l`
netsh_show_profiles(l) ==
    IF l.kind = "exit0"
    THEN CmdResult("exit0",
                   Preamble \o [i \in 1..Len(l.names) |-> ProfileLine(l.names[i])]
                            \o << <<>> >>,
                   <<>>)
    ELSE IF l.kind = "nonzero" THEN CmdResult("nonzero", ServiceDown, <<>>)
    ELSE CmdResult("oserror", <<>>, <<>>)

\* a line of `netsh wlan show profile <name> key=clear`
FieldLine(label, value) == Pad \o label \o <<" ", " ", ":", " ">> \o value

SecuredFields ==
    << FieldLine(<<"Authentication">>, <<"WPA2", "-", "Personal">>),
       FieldLine(<<"Security", " ", "key">>, <<"Present">>) >>

\* the ways the per-profile query can end on the modelled hosts
HostResults ==
    { "KeyShown", "KeyHidden", "OpenProfile", "NotFoundOnStdout", "NotFoundOnStderr",
      "OtherFailure", "SpawnFailure" }

\* the result of `netsh wlan show profile <name> key=clear` ending in way `how`
netsh_show_profile(how) ==
    CASE how = "KeyShown" ->
            CmdResult("exit0",
                      << <<>> >> \o SecuredFields
                         \o << FieldLine(<<"Key", " ", "Content">>, <<"s3cret">>) >>,
                      <<>>)
      [] how = "KeyHidden" ->
            CmdResult("exit0", << <<>> >> \o SecuredFields, <<>>)
      [] how = "OpenProfile" ->
            CmdResult("exit0",
                      << <<>>,
                         FieldLine(<<"Authentication">>, <<"Open">>),
                         FieldLine(<<"Security", " ", "key">>, <<"Absent">>) >>,
                      <<>>)
      [] how = "NotFoundOnStdout" ->
            CmdResult("nonzero",
                      << <<"Profile", " ", "x", " ", "Is", " ", "Not", " ", "Found",
                           " ", "on", " ", "the", " ", "system", ".">> >>,
                      <<>>)
      [] how = "NotFoundOnStderr" ->
            CmdResult("nonzero", <<>>,
                      << <<"Profile", " ", "x", " ", "is", " ", "not", " ", "found",
                           ".">> >>)
      [] how = "OtherFailure" -> CmdResult("nonzero", ServiceDown, <<>>)
      [] OTHER -> CmdResult("oserror", <<>>, <<>>)

(***************************************************************************)
(* WiFiScannerService.scan.                                                *)
(***************************************************************************)
\* a pool sized by the number of submitted tasks
max_workers_per_task == Len(profiles)

max_workers == 10

NetworkCredential(name, password, interface) ==
    [name |-> name, password |-> password, interface |-> interface]

\* handlers without the final `except Exception`: nothing is substituted
credential_password_unhandled(f) ==
    IF f.kind = "return" THEN f.value
    ELSE IF IsInstance(f.exc, "OpenNetworkException")
    THEN get_string("status_open_network", <<>>)
    ELSE f.value

\* the try/except around future.result(): the password put into the credential
credential_password(f) ==
    IF f.kind = "return" THEN f.value
    ELSE IF IsInstance(f.exc, "OpenNetworkException")
    THEN get_string("status_open_network", <<>>)
    ELSE IF IsInstance(f.exc, "AdminRightsRequiredError")
            \/ IsInstance(f.exc, "PasswordNotFoundError")
    THEN f.value
    ELSE get_string("status_general_error", <<>>)

\* the severity scan() logs at for a collected future
collect_level(f) ==
    IF f.kind = "return" \/ IsInstance(f.exc, "OpenNetworkException") THEN "none"
    ELSE IF IsInstance(f.exc, "AdminRightsRequiredError")
            \/ IsInstance(f.exc, "PasswordNotFoundError")
    THEN "warning"
    ELSE "error"

\* x.name <= y.name, the comparison credentials.sort(key=lambda x: x.name) makes
name_leq(x, y) == StrLeq(x.name, y.name)

\* insert x behind every element that does not compare greater (a stable sort)
RECURSIVE sort_insert(_, _)
sort_insert(x, sorted) ==
    IF sorted = <<>> THEN <<x>>
    ELSE IF name_leq(Head(sorted), x)
    THEN <<Head(sorted)>> \o sort_insert(x, Tail(sorted))
    ELSE <<x>> \o sorted

\* the list left in the order the lookups were collected
sort_by_name_skipped(creds) == creds

\* list.sort(key=name): stable, ascending
RECURSIVE sort_by_name(_)
sort_by_name(creds) ==
    IF creds = <<>> THEN <<>>
    ELSE sort_insert(creds[Len(creds)], sort_by_name(SubSeq(creds, 1, Len(creds) - 1)))

NoAnswer == "none"

\* a child process that never exits
Hang == "Hang"

\* provider.get_password(profile) when the query command ends in way `how`:
\* the outcome of the call and the severity it logs at, tabulated
lookup_outcome ==
    [how \in HostResults |->
        [name \in Names |-> get_password(name, netsh_show_profile(how))]]

lookup_level == [how \in HostResults |-> get_password_level(netsh_show_profile(how))]

\* the worker pool under load: more profiles than workers, every query answered alike
PoolListings ==
    ListingFailures \cup { ListingOf([i \in 1..PoolProfiles |-> <<"a">>]) }

\* provider.list_profiles() on a host whose listing command ends as `l`, tabulated
listing_outcome ==
    [l \in ListingResults \cup PoolListings |-> list_profiles(netsh_show_profiles(l))]
NoOutcome == [kind |-> "none", exc |-> "", value |-> PyNone]

InFlight == { i \in DOMAIN status : status[i] = "running" }

LogRecord(site, i, level) == [site |-> site, profile |-> i, level |-> level]

\* log with a record added, unless the severity is "none"
Logged(site, i, level) ==
    IF level = "none" THEN log ELSE log \cup {LogRecord(site, i, level)}

NoCalls == [c \in {} |-> 0]

\* calls with one more invocation of CommandExecutor.run(cmd)
Invoked(cmd) ==
    [c \in (DOMAIN calls) \cup {cmd} |->
        (IF c \in DOMAIN calls THEN calls[c] ELSE 0) + (IF c = cmd THEN 1 ELSE 0)]

\* a scan that treats a host without profiles as a failure
ListProfilesRaisingOnEmpty ==
    /\ pc = "start"
    /\ LET r == list_profiles(netsh_show_profiles(listing))
       IN  /\ pc' = IF r.kind = "raise" \/ r.value = <<>> THEN "raised" ELSE "collect"
           /\ profiles' = r.value
           /\ status' = [i \in 1..Len(r.value) |-> "queued"]
           /\ answer' = [i \in 1..Len(r.value) |-> NoAnswer]
           /\ future' = [i \in 1..Len(r.value) |-> NoOutcome]
    /\ calls' = Invoked(list_command)
    /\ UNCHANGED <<listing, host, credentials, log, callVars, ctlVars, workers, guiVars>>

\* scan() up to the as_completed loop: list_profiles(), the early return on an
\* empty list, the submission of one get_password task per profile; an exception
\* of list_profiles is re-raised as ScannerServiceException.  subprocess.run has
\* no timeout: a listing command that hangs never lets list_profiles return
ListProfiles ==
    /\ pc = "start"
    /\ listing.kind # "hang"
    /\ LET r == listing_outcome[listing]
       IN  /\ pc' = IF r.kind = "raise" THEN "raised"
                    ELSE IF r.value = <<>> THEN "returned"
                    ELSE "collect"
           /\ profiles' = r.value
           /\ status' = [i \in 1..Len(r.value) |-> "queued"]
           /\ answer' = [i \in 1..Len(r.value) |-> NoAnswer]
           /\ future' = [i \in 1..Len(r.value) |-> NoOutcome]
    /\ calls' = Invoked(list_command)
    /\ UNCHANGED <<listing, host, credentials, log, callVars, ctlVars,
                   workers, guiVars>>

\* a pool worker takes the oldest queued task and, in get_password, invokes the
\* query command; the pool has max_workers threads
StartLookup(i) ==
    /\ pc = "collect"
    /\ status[i] = "queued"
    /\ \A j \in 1..(i - 1) : status[j] # "queued"
    /\ Cardinality(InFlight) < max_workers
    /\ status' = [status EXCEPT ![i] = "running"]
    /\ calls' = Invoked(query_command(profiles[i]))
    /\ UNCHANGED <<pc, listing, host, profiles, answer, future, credentials, log,
                   callVars, ctlVars,
                   workers, guiVars>>

\* the query command of a worker's get_password call never exits
HangLookup(i) ==
    /\ status[i] = "running"
    /\ answer[i] = NoAnswer
    /\ Hang \in host
    /\ answer' = [answer EXCEPT ![i] = Hang]
    /\ UNCHANGED <<pc, listing, host, profiles, status, future, credentials, log, calls,
                   callVars, ctlVars, workers, guiVars>>

\* a worker that appends its result to the shared list itself
FinishLookupAppending(i) ==
    /\ status[i] = "running"
    /\ answer[i] # Hang
    /\ \E res \in host \cap HostResults :
          /\ answer' = [answer EXCEPT ![i] = res]
          /\ future' = [future EXCEPT ![i] = lookup_outcome[res][profiles[i]]]
          /\ log' = Logged("provider", i, lookup_level[res])
          /\ credentials' = Append(credentials,
                 NetworkCredential(profiles[i],
                                   credential_password(lookup_outcome[res][profiles[i]]),
                                   "WiFi"))
    /\ status' = [status EXCEPT ![i] = "done"]
    /\ UNCHANGED <<pc, listing, host, profiles, calls, callVars, ctlVars,
                   workers, guiVars>>

\* the worker's get_password(profile) call ends: its outcome is stored in the
\* future; a call whose command hangs never ends (subprocess.run has no timeout)
FinishLookup(i) ==
    /\ status[i] = "running"
    /\ answer[i] # Hang
    /\ \E res \in host \cap HostResults :
          /\ answer' = [answer EXCEPT ![i] = res]
          /\ future' = [future EXCEPT ![i] = lookup_outcome[res][profiles[i]]]
          /\ log' = Logged("provider", i, lookup_level[res])
    /\ status' = [status EXCEPT ![i] = "done"]
    /\ UNCHANGED <<pc, listing, host, profiles, credentials, calls, callVars, ctlVars,
                   workers, guiVars>>

\* a loop whose handlers only log a raised lookup and append nothing
CollectDroppingRaised(i) ==
    /\ pc = "collect"
    /\ status[i] = "done"
    /\ credentials' =
          IF future[i].kind = "raise" THEN credentials
          ELSE Append(credentials,
                      NetworkCredential(profiles[i], credential_password(future[i]), "WiFi"))
    /\ log' = Logged("scanner", i, collect_level(future[i]))
    /\ status' = [status EXCEPT ![i] = "collected"]
    /\ UNCHANGED <<pc, listing, host, profiles, answer, future, calls, callVars, ctlVars,
                   workers, guiVars>>

\* a loop that names its results by their position in the order of completion
CollectByCompletionOrder(i) ==
    /\ pc = "collect"
    /\ status[i] = "done"
    /\ credentials' = Append(credentials,
           NetworkCredential(profiles[Len(credentials) + 1],
                             credential_password(future[i]), "WiFi"))
    /\ log' = Logged("scanner", i, collect_level(future[i]))
    /\ status' = [status EXCEPT ![i] = "collected"]
    /\ UNCHANGED <<pc, listing, host, profiles, answer, future, calls, callVars, ctlVars,
                   workers, guiVars>>

\* one iteration of the as_completed loop, for a finished future
Collect(i) ==
    /\ pc = "collect"
    /\ status[i] = "done"
    /\ credentials' = Append(credentials,
           NetworkCredential(profiles[i], credential_password(future[i]), "WiFi"))
    /\ log' = Logged("scanner", i, collect_level(future[i]))
    /\ status' = [status EXCEPT ![i] = "collected"]
    /\ UNCHANGED <<pc, listing, host, profiles, answer, future, calls, callVars, ctlVars,
                   workers, guiVars>>

\* a scan that gives up on the lookups that hang
ReturnOnTimeout ==
    /\ pc = "collect"
    /\ \A i \in DOMAIN status : status[i] = "collected" \/ answer[i] = Hang
    /\ credentials' = sort_by_name(credentials)
    /\ pc' = "returned"
    /\ UNCHANGED <<listing, host, profiles, status, answer, future, log, calls, callVars,
                   ctlVars, workers, guiVars>>

\* every future was yielded: the pool shuts down, the list is sorted and returned
Return ==
    /\ pc = "collect"
    /\ \A i \in DOMAIN status : status[i] = "collected"
    /\ credentials' = sort_by_name(credentials)
    /\ pc' = "returned"
    /\ UNCHANGED <<listing, host, profiles, status, answer, future, log, calls, callVars, ctlVars,
                   workers, guiVars>>

Next ==
    \/ ListProfiles
    \/ \E i \in DOMAIN status : StartLookup(i)
    \/ \E i \in DOMAIN status : FinishLookup(i)
    \/ \E i \in DOMAIN status : Collect(i)
    \/ Return

(***************************************************************************)
(* Controller: start_scan_thread and the worker thread it starts.          *)
(* pc: "idle" (no worker) -> "spawned" -> the positions of scan() ->        *)
(* "finally" -> "idle".                                                     *)
(***************************************************************************)
\* an invocation of one of the two callbacks start_scan_thread was given
OnSuccess(creds) == [callback |-> "on_success", message |-> PyNone, credentials |-> creds]
OnError(key) ==
    [callback |-> "on_error", message |-> get_string(key, <<>>), credentials |-> <<>>]

\* the host as a scan started from the user interface can find it
ControllerListings ==
    { [kind |-> "nonzero", names |-> <<>>], ListingOf(<<>>), ListingOf(<< <<"a">> >>) }

\* a start_scan_thread without the `if self.is_scanning: return` guard
StartScanThreadUnguarded ==
    /\ clicks < MaxClicks
    /\ clicks' = clicks + 1
    /\ IF ~admin
       THEN /\ reported' = Append(reported, OnError("admin_privileges_required"))
            /\ UNCHANGED <<pc, listing, profiles, status, answer, future, credentials,
                           is_scanning, workers>>
       ELSE /\ is_scanning' = TRUE
            /\ workers' = workers + 1
            /\ pc' = "spawned"
            /\ listing' \in ControllerListings
            /\ profiles' = <<>>
            /\ status' = <<>>
            /\ answer' = <<>>
            /\ future' = <<>>
            /\ credentials' = <<>>
            /\ UNCHANGED reported
    /\ UNCHANGED <<host, log, calls, admin, callVars, guiVars>>

\* a start_scan_thread that sets is_scanning before it asks for the privileges
StartScanThreadFlagFirst ==
    /\ clicks < MaxClicks
    /\ clicks' = clicks + 1
    /\ IF is_scanning
       THEN UNCHANGED <<pc, listing, profiles, status, answer, future, credentials,
                        is_scanning, reported, workers>>
       ELSE IF ~admin
       THEN /\ is_scanning' = TRUE
            /\ reported' = Append(reported, OnError("admin_privileges_required"))
            /\ UNCHANGED <<pc, listing, profiles, status, answer, future, credentials,
                           workers>>
       ELSE /\ is_scanning' = TRUE
            /\ workers' = workers + 1
            /\ pc' = "spawned"
            /\ listing' \in ControllerListings
            /\ profiles' = <<>>
            /\ status' = <<>>
            /\ answer' = <<>>
            /\ future' = <<>>
            /\ credentials' = <<>>
            /\ UNCHANGED reported
    /\ UNCHANGED <<host, log, calls, admin, callVars, guiVars>>

\* Controller.start_scan_thread: ignored while a scan is running; refused through
\* on_error without admin rights; otherwise is_scanning is set and the worker
\* thread is started (the host is in whatever condition it is in by then)
start_scan_thread ==
    /\ clicks < MaxClicks
    /\ clicks' = clicks + 1
    /\ IF is_scanning
       THEN UNCHANGED <<pc, listing, profiles, status, answer, future, credentials,
                        is_scanning, reported, workers>>
       ELSE IF ~admin
       THEN /\ reported' = Append(reported, OnError("admin_privileges_required"))
            /\ UNCHANGED <<pc, listing, profiles, status, answer, future, credentials,
                           is_scanning, workers>>
       ELSE /\ is_scanning' = TRUE
            /\ workers' = workers + 1
            /\ pc' = "spawned"
            /\ listing' \in ControllerListings
            /\ profiles' = <<>>
            /\ status' = <<>>
            /\ answer' = <<>>
            /\ future' = <<>>
            /\ credentials' = <<>>
            /\ UNCHANGED reported
    /\ UNCHANGED <<host, log, calls, admin, callVars>>

\* a start_scan_thread call with callbacks that leave the user interface alone
StartScanThread == start_scan_thread /\ UNCHANGED guiVars

\* _scan_worker up to its call of scan(): the start is logged
WorkerBegin ==
    /\ pc = "spawned"
    /\ pc' = "start"
    /\ log' = Logged("controller", 0, "info")
    /\ UNCHANGED <<listing, host, profiles, status, answer, future, credentials, calls,
                   callVars, ctlVars,
                   workers, guiVars>>

\* a worker whose flag reset sits at the end of the try block, not in a finally
WorkerFinallyAfterSuccessOnly ==
    /\ pc = "finally"
    /\ is_scanning' = IF reported[Len(reported)].callback = "on_error" THEN is_scanning
                      ELSE FALSE
    /\ pc' = "idle"
    /\ workers' = workers - 1
    /\ UNCHANGED <<listing, host, profiles, status, answer, future, credentials, log,
                   calls, admin, reported, clicks, callVars,
                   guiVars>>

\* _scan_worker after scan(): on_success with the result, or, scan() having
\* raised, the exception is logged and on_error is called
WorkerReport ==
    /\ pc \in {"returned", "raised"}
    /\ is_scanning
    /\ reported' = Append(reported,
                          IF pc = "returned" THEN OnSuccess(credentials)
                          ELSE OnError("error_occurred_during_scan"))
    /\ log' = Logged("controller", 0, IF pc = "returned" THEN "info" ELSE "error")
    /\ pc' = "finally"
    /\ UNCHANGED <<listing, host, profiles, status, answer, future, credentials, calls,
                   is_scanning, admin, clicks, callVars,
                   workers, guiVars>>

\* _scan_worker after a scan() that returned, with an on_success that raises: the
\* call sits inside the try block, so the except clause logs the exception and
\* calls on_error as well
WorkerReportRaising ==
    /\ pc = "returned"
    /\ is_scanning
    /\ reported' = reported \o << OnSuccess(credentials),
                                  OnError("error_occurred_during_scan") >>
    /\ log' = log \cup { LogRecord("controller", 0, "info"),
                         LogRecord("controller", 0, "error") }
    /\ pc' = "finally"
    /\ UNCHANGED <<listing, host, profiles, status, answer, future, credentials, calls,
                   is_scanning, admin, clicks, callVars, workers, guiVars>>

\* the finally clause of _scan_worker; the thread ends
WorkerFinally ==
    /\ pc = "finally"
    /\ is_scanning' = FALSE
    /\ pc' = "idle"
    /\ workers' = workers - 1
    /\ UNCHANGED <<listing, host, profiles, status, answer, future, credentials, log,
                   calls, admin, reported, clicks, callVars,
                   guiVars>>

NextController ==
    \/ StartScanThread
    \/ WorkerBegin
    \/ Next
    \/ WorkerReport
    \/ WorkerReportRaising
    \/ WorkerFinally

\* one run of the worker thread, on a host whose commands may hang
NextTermination ==
    \/ WorkerBegin
    \/ ListProfiles
    \/ \E i \in DOMAIN status : StartLookup(i)
    \/ \E i \in DOMAIN status : HangLookup(i)
    \/ \E i \in DOMAIN status : FinishLookup(i)
    \/ \E i \in DOMAIN status : Collect(i)
    \/ Return
    \/ WorkerReport
    \/ WorkerFinally

\* the steps of the worker thread, of the pool workers and of the collecting loop
WorkerStep ==
    \/ WorkerBegin
    \/ ListProfiles
    \/ \E i \in DOMAIN status : StartLookup(i)
    \/ \E i \in DOMAIN status : FinishLookup(i)
    \/ \E i \in DOMAIN status : Collect(i)
    \/ Return
    \/ WorkerReport
    \/ WorkerFinally

\* the threads are scheduled and a command that does not hang exits: while a
\* step of the scan is possible, one is eventually taken; nothing forces a
\* command to hang
FairTermination == WF_vars(WorkerStep)

(***************************************************************************)
(* ReportService (core/report_service.py).  The str it builds is a flat     *)
(* sequence of atoms in which "\n" is the line break.                       *)
(***************************************************************************)
\* str(v), as an f-string renders a password field: the text of a str, the
\* word None for None; a localized string is shown as its key followed by the
\* argument it was formatted with
py_str(v) ==
    IF v.tag = "None" THEN <<"None">>
    ELSE IF v.key = "" THEN v.text
    ELSE <<v.key>> \o v.text

\* a formatter that joins the entries with a blank instead of a line break
RECURSIVE format_credentials_without_newline(_)
format_credentials_without_newline(creds) ==
    IF creds = <<>> THEN NoText
    ELSE Head(creds).name \o <<" ", "=", " ">> \o py_str(Head(creds).password) \o <<" ">>
            \o format_credentials_without_newline(Tail(creds))

\* "".join([f"{cred.name} = {cred.password}\n" for cred in credentials])
RECURSIVE join_credential_lines(_)
join_credential_lines(creds) ==
    IF creds = <<>> THEN NoText
    ELSE Head(creds).name \o <<" ", "=", " ">> \o py_str(Head(creds).password) \o <<"\n">>
            \o join_credential_lines(Tail(creds))

\* ReportService.format_credentials_to_string, which
\* Controller.format_credentials_for_display hands to the GUI
format_credentials_to_string(creds) ==
    IF creds = <<>> THEN NoText ELSE join_credential_lines(creds)

\* the banner: a rule, five lines of lettering, a rule, an empty line
BANNER_ASCII ==
    <<"_ _ _", "\n", "lettering", "\n", "lettering", "\n", "lettering", "\n",
      "lettering", "\n", "lettering", "\n", "_ _ _", "\n", "\n">>

\* ReportService.generate_report_content: banner, date, user, system, header,
\* the formatted credentials, a rule and the closing line
generate_report_content(creds, system_info) ==
    BANNER_ASCII
        \o <<"report_date_prefix", ":", " ", "now", "\n">>
        \o <<"report_user_prefix", ":", " ", "user", "\n">>
        \o <<"report_system_prefix", ":", " ">> \o system_info \o <<"\n", "\n">>
        \o <<"report_networks_header", ":", "\n", "\n">>
        \o format_credentials_to_string(creds)
        \o <<"\n", "-----", "\n">>
        \o <<"report_generated_by", "\n">>

\* Controller.format_credentials_for_display on a scan result
Call_format_credentials_for_display ==
    /\ qin.call = "format_credentials_for_display"
    /\ qout.outcome.kind = "none"
    /\ qout' = [outcome |-> [kind |-> "return", exc |-> "",
                             value |-> format_credentials_to_string(qin.credentials)],
                level |-> "none"]
    /\ UNCHANGED <<qin, qes, calls, scanVars, ctlVars, workers, guiVars>>

\* ReportService.generate_report_content on a scan result
Call_generate_report_content ==
    /\ qin.call = "generate_report_content"
    /\ qout.outcome.kind = "none"
    /\ qout' = [outcome |-> [kind |-> "return", exc |-> "",
                             value |-> generate_report_content(qin.credentials,
                                                               qin.system_info)],
                level |-> "none"]
    /\ UNCHANGED <<qin, qes, calls, scanVars, ctlVars, workers, guiVars>>

NextReport == Call_format_credentials_for_display \/ Call_generate_report_content

\* the password fields scan() produces: a key, an empty key, None, the
\* placeholders of an open network, of missing rights and of an unknown failure
ReportPasswords ==
    { PyStr(<<"s3cret">>), PyStr(<<>>), PyNone, get_string("status_open_network", <<>>),
      get_string("error_password_not_found_admin_required", <<"a">>),
      get_string("status_general_error", <<>>) }

\* scan results: sorted by name, names may repeat
ScanResults ==
    { creds \in SeqUpTo({ NetworkCredential(n, pw, "WiFi") : n \in Names,
                                                             pw \in ReportPasswords },
                        MaxProfiles) :
        sort_by_name(creds) = creds }

(***************************************************************************)
(* GUI (ui/gui.py).  The UI thread runs the Tk event loop: tk.pc is          *)
(* "mainloop" between two events, or a position inside start_scan;           *)
(* tk.start_scan says that the root.after(200, start_scan) of __init__ is    *)
(* pending; tk.events are the callbacks registered with root.after(0, ...),  *)
(* in order; tk.spinners counts the pending root.after(120, spinner_anim)    *)
(* timers.  The worker thread of the Controller runs beside it.              *)
(***************************************************************************)
\* str.rstrip() on a text with line breaks
RECURSIVE RStripFlat(_)
RStripFlat(flat) ==
    IF flat # <<>> /\ IsWhite(flat[Len(flat)])
    THEN RStripFlat(SubSeq(flat, 1, Len(flat) - 1))
    ELSE flat

\* AppState.SPINNER, the frames of the animation
SPINNER == <<"frame0", "frame1", "frame2", "frame3", "frame4", "frame5", "frame6", "frame7">>

\* what spinner_anim writes into the text box
SpinnerText(index) == <<"scanning_message", " ", SPINNER[index + 1]>>

\* what update_ui of _on_scan_success writes into the text box
SuccessText(creds) ==
    IF creds # <<>>
    THEN RStripFlat(format_credentials_to_string(creds))
            \o <<"\n", "\n", "-----">> \o <<"\n", "scan_completed", Len(creds)>>
    ELSE <<"no_networks_found">>

\* what update_ui of _on_scan_error writes into the text box
ErrorText(message) == <<message.key>>

\* the update_ui closure a callback hands to root.after(0, ...)
UpdateUi(cb) == [fn |-> "update_ui", outcome |-> cb]

\* `if not self.app_state.credentials`
Falsy(creds) == creds = PyNone \/ creds = <<>>

\* GUI.start_scan up to the return of start_scan_thread (lines 100-108); a call
\* made while is_scanning is True returns at once.  Without admin rights
\* start_scan_thread has called _on_scan_error, which registers its update_ui
start_scan(timer) ==
    /\ tk.pc = "mainloop"
    /\ IF is_scanning
       THEN /\ tk' = [tk EXCEPT !.start_scan = timer]
            /\ UNCHANGED <<scanVars, calls, callVars, ctlVars, workers>>
       ELSE /\ start_scan_thread
            /\ tk' = [tk EXCEPT
                        !.pc = "started",
                        !.start_scan = timer,
                        !.events = IF admin THEN @
                                   ELSE Append(@, UpdateUi(OnError("admin_privileges_required")))]
    /\ UNCHANGED <<gui, disk>>

\* the start_scan that __init__ registered with root.after(200, ...)
GuiStartupScan ==
    /\ tk.start_scan
    /\ start_scan(FALSE)

\* a click on the scan button: _command_wrapper runs start_scan if buttons_enabled
GuiClickScan ==
    /\ gui.buttons_enabled
    /\ start_scan(tk.start_scan)

\* GUI.start_scan after start_scan_thread returned (lines 112-114): if the
\* controller is (still) scanning, the held credentials are dropped and the
\* buttons are disabled
GuiAfterStart ==
    /\ tk.pc = "started"
    /\ IF is_scanning
       THEN /\ gui' = [gui EXCEPT !.credentials = PyNone, !.buttons_enabled = FALSE]
            /\ tk' = [tk EXCEPT !.pc = "spinner_anim"]
       ELSE /\ tk' = [tk EXCEPT !.pc = "mainloop"]
            /\ UNCHANGED gui
    /\ UNCHANGED <<scanVars, calls, callVars, ctlVars, workers, disk>>

\* GUI.spinner_anim: nothing unless the controller is scanning; otherwise the
\* next frame is written into the text box and the timer is set again
spinner_anim(spinners) ==
    /\ IF is_scanning
       THEN /\ LET index == (gui.spinner_index + 1) % Len(SPINNER)
               IN  gui' = [gui EXCEPT !.spinner_index = index,
                                      !.text_box = SpinnerText(index)]
            /\ tk' = [tk EXCEPT !.pc = "mainloop", !.spinners = spinners + 1]
       ELSE /\ tk' = [tk EXCEPT !.pc = "mainloop", !.spinners = spinners]
            /\ UNCHANGED gui
    /\ UNCHANGED <<scanVars, calls, callVars, ctlVars, workers, disk>>

\* the spinner_anim() call that ends start_scan (line 115)
GuiFirstSpinner ==
    /\ tk.pc = "spinner_anim"
    /\ spinner_anim(tk.spinners)

\* a root.after(120, spinner_anim) timer fires
GuiSpinnerTimer ==
    /\ tk.pc = "mainloop"
    /\ tk.spinners > 0
    /\ spinner_anim(tk.spinners - 1)

\* the event loop runs the oldest update_ui: the outcome is written into the
\* text box, a successful scan's credentials are kept, the buttons are enabled
GuiUpdateUi ==
    /\ tk.pc = "mainloop"
    /\ tk.events # <<>>
    /\ LET cb == Head(tk.events).outcome
       IN  gui' = IF cb.callback = "on_success"
                  THEN [gui EXCEPT !.credentials = cb.credentials,
                                   !.text_box = SuccessText(cb.credentials),
                                   !.buttons_enabled = TRUE]
                  ELSE [gui EXCEPT !.buttons_enabled = TRUE,
                                   !.text_box = ErrorText(cb.message)]
    /\ tk' = [tk EXCEPT !.events = Tail(tk.events)]
    /\ UNCHANGED <<scanVars, calls, callVars, ctlVars, workers, disk>>

\* a click on the save button: guardar_archivo refuses without credentials (a
\* message, nothing changes); otherwise the report of the held credentials is
\* written.  With the report is kept the last callback the controller had
\* invoked by then
GuiClickSave ==
    /\ tk.pc = "mainloop"
    /\ gui.buttons_enabled
    /\ ~Falsy(gui.credentials)
    /\ disk' = disk \cup { [credentials |-> gui.credentials,
                            last_callback |-> reported[Len(reported)].callback] }
    /\ UNCHANGED <<scanVars, calls, callVars, ctlVars, workers, gui, tk>>

\* _scan_worker after scan(), with the callbacks of the GUI: _on_scan_success or
\* _on_scan_error registers its update_ui with root.after(0, ...)
WorkerReportToGUI ==
    /\ pc \in {"returned", "raised"}
    /\ is_scanning
    /\ LET cb == IF pc = "returned" THEN OnSuccess(credentials)
                 ELSE OnError("error_occurred_during_scan")
       IN  /\ reported' = Append(reported, cb)
           /\ tk' = [tk EXCEPT !.events = Append(@, UpdateUi(cb))]
    /\ log' = Logged("controller", 0, IF pc = "returned" THEN "info" ELSE "error")
    /\ pc' = "finally"
    /\ UNCHANGED <<listing, host, profiles, status, answer, future, credentials, calls,
                   is_scanning, admin, clicks, callVars, workers, gui, disk>>

\* the UI thread and the worker thread, interleaved
NextGUI ==
    \/ GuiStartupScan
    \/ GuiClickScan
    \/ GuiAfterStart
    \/ GuiFirstSpinner
    \/ GuiSpinnerTimer
    \/ GuiUpdateUi
    \/ GuiClickSave
    \/ WorkerBegin
    \/ Next
    \/ WorkerReportToGUI
    \/ WorkerFinally

(***************************************************************************)
(* A single get_password call on an arbitrary command result.              *)
(***************************************************************************)
CallGetPassword ==
    /\ qout.outcome = NoOutcome
    /\ qin.res.kind # "none"
    /\ qout' = [outcome |-> get_password(qin.profile, qin.res),
                level |-> get_password_level(qin.res)]
    /\ calls' = Invoked(query_command(qin.profile))
    /\ UNCHANGED <<qin, qes, scanVars, ctlVars, workers, guiVars>>

NextQuery == CallGetPassword

\* a single list_profiles call on an arbitrary command result
CallListProfiles ==
    /\ qout.outcome.kind = "none"
    /\ qin.res.kind # "none"
    /\ qout' = [outcome |-> list_profiles(qin.res), level |-> "none"]
    /\ calls' = Invoked(list_command)
    /\ UNCHANGED <<qin, qes, scanVars, ctlVars, workers, guiVars>>

NextListing == CallListProfiles

\* lines `netsh wlan show profiles` can print: profile lines in English, in
\* Spanish and in lower case without padding, a profile line without a name, one
\* for a profile whose own name holds the label, and lines that name no profile
ListingLines ==
    { ProfileLine(<<"a">>),
      ProfileLine(<<"a", " ", "b">>),
      Pad \o <<"Perfil", " ", "de", " ", "todos", " ", "los", " ", "usuarios",
               " ", " ", ":", " ", "B">>,
      <<"all", " ", "user", " ", "profile", ":", "B">>,
      ProfileLine(<<>>),
      ProfileLine(<<"All", " ", "User", " ", "Profile", ":", "b">>),
      <<"Profiles", " ", "on", " ", "interface", " ", "Wi-Fi", ":">>,
      <<"User", " ", "profiles">>,
      <<>> }

ListingTexts ==
    { CmdResult("exit0", lines, <<>>) : lines \in SeqUpTo(ListingLines, MaxListingLines) }
        \cup { CmdResult("nonzero", ServiceDown, <<>>), CmdResult("oserror", <<>>, <<>>) }

NotFoundEn ==
    << <<"Profile", " ", "x", " ", "Is", " ", "Not", " ", "Found", " ",
         "on", " ", "the", " ", "system", ".">> >>

NotFoundEs ==
    << <<"El", " ", "perfil", " ", "x", " ", "no", " ", "se", " ", "encuentra",
         ".">> >>

ErrTexts == { <<>>, ServiceDown, NotFoundEn, NotFoundEs }

FieldLabels ==
    { NETSH_KEYS.key_content[n] : n \in 1..Len(NETSH_KEYS.key_content) }
        \cup { NETSH_KEYS.security_key[n] : n \in 1..Len(NETSH_KEYS.security_key) }
        \cup { NETSH_KEYS.authentication[n] : n \in 1..Len(NETSH_KEYS.authentication) }
        \cup { <<"Cipher">> }

FieldValues ==
    { <<"Absent">>, <<"Ausente">>, <<"Open">>, <<"Abierta">>,
      <<"WPA2", "-", "Personal">>, <<"s3cret">>, <<>> }

FieldLines ==
    { FieldLine(l, v) : l \in FieldLabels, v \in FieldValues } \cup { <<"-", "-", "-">> }

QueryResults ==
    { CmdResult("exit0", << <<>> >> \o lines, <<>>) :
          lines \in SeqUpTo(FieldLines, MaxFieldLines) }
        \cup { CmdResult("nonzero", out, err) : out \in ErrTexts, err \in ErrTexts }
        \cup { CmdResult("oserror", <<>>, <<>>) }

\* what a Spanish-language Windows prints where an English one prints `label`
SpanishLabel(label) ==
    CASE label = <<"Key", " ", "Content">> ->
            <<"Contenido", " ", "de", " ", "la", " ", "clave">>
      [] label = <<"Security", " ", "key">> -> <<"Clave", " ", "de", " ", "seguridad">>
      [] label = <<"Authentication">> -> <<"Autenticación">>
      [] label = <<"Cipher">> -> <<"Cifrado">>
      [] OTHER -> label

\* ... and where it prints `value` for the field `label` (a key is not translated)
SpanishValue(label, value) ==
    CASE label = <<"Security", " ", "key">> /\ value = <<"Absent">> -> <<"Ausente">>
      [] label = <<"Security", " ", "key">> /\ value = <<"Present">> -> <<"Presente">>
      [] label = <<"Authentication">> /\ value = <<"Open">> -> <<"Abierta">>
      [] OTHER -> value

SpanishLine(line) ==
    IF Colons(line) = {} THEN line
    ELSE LET c == Min(Colons(line))
             label == Strip(SubSeq(line, 1, c - 1))
             value == Strip(SubSeq(line, c + 1, Len(line)))
         IN  FieldLine(SpanishLabel(label), SpanishValue(label, value))

ServiceDownEs ==
    << <<"El", " ", "servicio", " ", "no", " ", "se", " ", "está", " ",
         "ejecutando", ".">> >>

SpanishMessage(text) ==
    IF text = NotFoundEn THEN NotFoundEs
    ELSE IF text = ServiceDown THEN ServiceDownEs
    ELSE text

\* the result of the same command on a Spanish-language Windows
Spanish(res) ==
    IF res.kind = "exit0"
    THEN CmdResult("exit0", [i \in 1..Len(res.stdout) |-> SpanishLine(res.stdout[i])],
                   <<>>)
    ELSE CmdResult(res.kind, SpanishMessage(res.stdout), SpanishMessage(res.stderr))

\* query outputs of an English-language Windows
EnglishLabels ==
    { <<"Key", " ", "Content">>, <<"Security", " ", "key">>, <<"Authentication">>,
      <<"Cipher">> }

EnglishValues ==
    { <<"Absent">>, <<"Present">>, <<"Open">>, <<"WPA2", "-", "Personal">>, <<"s3cret">>,
      <<>> }

EnglishLines ==
    { FieldLine(l, v) : l \in EnglishLabels, v \in EnglishValues } \cup { <<"-", "-", "-">> }

EnglishResults ==
    { CmdResult("exit0", << <<>> >> \o lines, <<>>) :
          lines \in SeqUpTo(EnglishLines, MaxFieldLines) }
        \cup { CmdResult("nonzero", out, err) :
                  out \in { <<>>, ServiceDown, NotFoundEn },
                  err \in { <<>>, ServiceDown, NotFoundEn } }
        \cup { CmdResult("oserror", <<>>, <<>>) }

\* the same call on the host's Spanish-language twin
CallGetPasswordSpanish ==
    /\ qes.outcome = NoOutcome
    /\ qin.res.kind # "none"
    /\ qes' = [outcome |-> get_password(qin.profile, Spanish(qin.res)),
               level |-> get_password_level(Spanish(qin.res))]
    /\ calls' = Invoked(query_command(qin.profile))
    /\ UNCHANGED <<qin, qout, scanVars, ctlVars, workers, guiVars>>

NextLocale == CallGetPassword \/ CallGetPasswordSpanish

\* a single NetshWifiProvider.list_profiles call on an arbitrary command result
Call_NetshWifiProvider_list_profiles ==
    /\ qout.outcome.kind = "none"
    /\ qout' = [outcome |-> NetshWifiProvider_list_profiles(qin.locale, qin.res),
                level |-> "none"]
    /\ calls' = Invoked(list_command)
    /\ UNCHANGED <<qin, qes, scanVars, ctlVars, workers, guiVars>>

\* a single NetshWifiProvider.get_password call on an arbitrary command result
Call_NetshWifiProvider_get_password ==
    /\ qout.outcome.kind = "none"
    /\ qout' = [outcome |-> NetshWifiProvider_get_password(qin.locale, qin.profile,
                                                           qin.res),
                level |-> "none"]
    /\ calls' = Invoked(NetshWifiProvider_query_command(qin.profile))
    /\ UNCHANGED <<qin, qes, scanVars, ctlVars, workers, guiVars>>

Next_NetshWifiProvider ==
    \/ Call_NetshWifiProvider_list_profiles
    \/ Call_NetshWifiProvider_get_password

\* lines of listing and query outputs in English and Spanish, complete and broken
PerLocaleLines ==
    { ProfileLine(<<"a">>),
      ProfileLine(<<"a", " ", "b">>),
      ProfileLine(<<>>),
      Pad \o <<"Perfil", " ", "de", " ", "todos", " ", "los", " ", "usuarios",
               " ", " ", ":", " ", "B">>,
      FieldLine(<<"Key", " ", "Content">>, <<"s3cret">>),
      FieldLine(<<"Key", " ", "Content">>, <<>>),
      FieldLine(<<"Contenido", " ", "de", " ", "la", " ", "clave">>, <<"s3cret">>),
      FieldLine(<<"key", " ", "content">>, <<"s3cret">>),
      FieldLine(<<"Authentication">>, <<"Open">>),
      Pad \o <<"Key", " ", "Content">>,
      <<":", " ", "b">>,
      <<>> }

SystemLocales == { "en_US", "es_ES", "ja_JP", "None" }

PerLocaleResults ==
    { CmdResult("exit0", lines, <<>>) : lines \in SeqUpTo(PerLocaleLines, MaxFieldLines) }
        \cup { CmdResult("nonzero", ServiceDown, <<>>), CmdResult("oserror", <<>>, <<>>) }

\* a single _parse_netsh_output call on an arbitrary output
Call_parse_netsh_output ==
    /\ qout.outcome.kind = "none"
    /\ qout' = [outcome |-> [kind |-> "return", exc |-> "",
                             value |-> parse_netsh_output(qin.res.stdout)],
                level |-> "none"]
    /\ UNCHANGED <<qin, qes, calls, scanVars, ctlVars, workers, guiVars>>

NextParse == Call_parse_netsh_output

\* lines of a query output: padded fields, an empty value, a value that holds a
\* colon, a line without label, lines without colon
ParseLines ==
    { FieldLine(l, v) : l \in { <<"Authentication">>, <<"Cipher">> },
                        v \in { <<"Open">>, <<"WPA2", "-", "Personal">>, <<>> } }
        \cup { <<"Cipher", ":", "a", ":", "b">>, <<":", " ", "b">>, <<"-", "-", "-">>, <<>> }

ParseTexts ==
    { CmdResult("exit0", lines, <<>>) : lines \in SeqUpTo(ParseLines, MaxFieldLines) }

NoQuery == [profile |-> <<>>, res |-> CmdResult("none", <<>>, <<>>)]
NoCall == [outcome |-> NoOutcome, level |-> "none"]

\* Controller.__init__, with the privilege the process runs with
InitController ==
    /\ is_scanning = FALSE
    /\ admin = TRUE
    /\ reported = <<>>
    /\ clicks = 0
    /\ workers = 0

\* GUI.__init__ and AppState.__init__: an empty text box, enabled buttons, no
\* credentials held, the first start_scan scheduled with root.after(200, ...)
InitGUI ==
    /\ gui = [buttons_enabled |-> TRUE, text_box |-> NoText, credentials |-> PyNone,
              spinner_index |-> 0]
    /\ tk = [pc |-> "mainloop", start_scan |-> TRUE, events |-> <<>>, spinners |-> 0]
    /\ disk = {}

InitScan ==
    /\ pc = "start"
    /\ profiles = <<>>
    /\ status = <<>>
    /\ answer = <<>>
    /\ future = <<>>
    /\ credentials = <<>>
    /\ log = {}
    /\ calls = NoCalls
    /\ qin = NoQuery
    /\ qout = NoCall
    /\ qes = NoCall
    /\ InitController
    /\ InitGUI

Init ==
    /\ listing \in ListingResults
    /\ host = HostResults
    /\ InitScan

Spec == Init /\ [][Next]_vars

InitPool ==
    /\ listing \in PoolListings
    /\ host = {"KeyShown"}
    /\ InitScan

SpecPool == InitPool /\ [][Next]_vars

\* scans observed for the commands they run: lookups that succeed or cannot start
InitCommands ==
    /\ listing \in ListingResults
    /\ host = {"KeyShown", "SpawnFailure"}
    /\ InitScan

SpecCommands == InitCommands /\ [][Next]_vars

InitQuery ==
    /\ qin \in [profile : { <<"B">> }, res : QueryResults]
    /\ qout = NoCall
    /\ pc = "start"
    /\ listing = ListingOf(<<>>)
    /\ host = {}
    /\ profiles = <<>>
    /\ status = <<>>
    /\ answer = <<>>
    /\ future = <<>>
    /\ credentials = <<>>
    /\ log = {}
    /\ calls = NoCalls
    /\ qes = NoCall
    /\ InitController
    /\ InitGUI

SpecQuery == InitQuery /\ [][NextQuery]_vars

InitLocale ==
    /\ qin \in [profile : { <<"a">> }, res : EnglishResults]
    /\ qout = NoCall
    /\ qes = NoCall
    /\ pc = "start"
    /\ listing = ListingOf(<<>>)
    /\ host = {}
    /\ profiles = <<>>
    /\ status = <<>>
    /\ answer = <<>>
    /\ future = <<>>
    /\ credentials = <<>>
    /\ log = {}
    /\ calls = NoCalls
    /\ InitController
    /\ InitGUI

SpecLocale == InitLocale /\ [][NextLocale]_vars

Init_NetshWifiProvider ==
    /\ qin \in [profile : { <<"a", " ", "b">> }, res : PerLocaleResults,
                 locale : SystemLocales]
    /\ qout = NoCall
    /\ qes = NoCall
    /\ pc = "start"
    /\ listing = ListingOf(<<>>)
    /\ host = {}
    /\ profiles = <<>>
    /\ status = <<>>
    /\ answer = <<>>
    /\ future = <<>>
    /\ credentials = <<>>
    /\ log = {}
    /\ calls = NoCalls
    /\ InitController
    /\ InitGUI

Spec_NetshWifiProvider == Init_NetshWifiProvider /\ [][Next_NetshWifiProvider]_vars

InitParse ==
    /\ qin \in [profile : { <<>> }, res : ParseTexts]
    /\ qout = NoCall
    /\ qes = NoCall
    /\ pc = "start"
    /\ listing = ListingOf(<<>>)
    /\ host = {}
    /\ profiles = <<>>
    /\ status = <<>>
    /\ answer = <<>>
    /\ future = <<>>
    /\ credentials = <<>>
    /\ log = {}
    /\ calls = NoCalls
    /\ InitController
    /\ InitGUI

SpecParse == InitParse /\ [][NextParse]_vars

InitReport ==
    /\ qin \in [call : {"format_credentials_for_display", "generate_report_content"},
                credentials : ScanResults,
                system_info : { <<"Windows", " ", "10">> }]
    /\ qout = NoCall
    /\ qes = NoCall
    /\ pc = "start"
    /\ listing = ListingOf(<<>>)
    /\ host = {}
    /\ profiles = <<>>
    /\ status = <<>>
    /\ answer = <<>>
    /\ future = <<>>
    /\ credentials = <<>>
    /\ log = {}
    /\ calls = NoCalls
    /\ InitController
    /\ InitGUI

SpecReport == InitReport /\ [][NextReport]_vars

\* start_scan_thread has just started the worker; the listing command and the
\* per-profile commands of the host may hang
InitTermination ==
    /\ pc = "spawned"
    /\ listing \in ListingResults \cup { [kind |-> "hang", names |-> <<>>] }
    /\ host = {"KeyShown", "SpawnFailure", Hang}
    /\ profiles = <<>>
    /\ status = <<>>
    /\ answer = <<>>
    /\ future = <<>>
    /\ credentials = <<>>
    /\ log = {}
    /\ calls = NoCalls
    /\ qin = NoQuery
    /\ qout = NoCall
    /\ qes = NoCall
    /\ is_scanning = TRUE
    /\ admin = TRUE
    /\ reported = <<>>
    /\ clicks = 1
    /\ workers = 1
    /\ InitGUI

SpecTermination == InitTermination /\ [][NextTermination]_vars /\ FairTermination

InitListing ==
    /\ qin \in [profile : { <<>> }, res : ListingTexts]
    /\ qout = NoCall
    /\ qes = NoCall
    /\ pc = "start"
    /\ listing = ListingOf(<<>>)
    /\ host = {}
    /\ profiles = <<>>
    /\ status = <<>>
    /\ answer = <<>>
    /\ future = <<>>
    /\ credentials = <<>>
    /\ log = {}
    /\ calls = NoCalls
    /\ InitController
    /\ InitGUI

SpecListing == InitListing /\ [][NextListing]_vars

\* the application after Controller.__init__: no scan was started yet
InitApplication ==
    /\ pc = "idle"
    /\ listing \in ControllerListings
    /\ host = {"KeyShown"}
    /\ profiles = <<>>
    /\ status = <<>>
    /\ answer = <<>>
    /\ future = <<>>
    /\ credentials = <<>>
    /\ log = {}
    /\ calls = NoCalls
    /\ qin = NoQuery
    /\ qout = NoCall
    /\ qes = NoCall
    /\ is_scanning = FALSE
    /\ admin \in BOOLEAN
    /\ reported = <<>>
    /\ clicks = 0
    /\ workers = 0
    /\ InitGUI

SpecController == InitApplication /\ [][NextController]_vars

SpecGUI == InitApplication /\ [][NextGUI]_vars

(***************************************************************************)
(* Properties.                                                             *)
(***************************************************************************)
Returned == pc = "returned"

Distinct(seq) == \A i, j \in DOMAIN seq : seq[i] = seq[j] => i = j

\* the positions of the returned list that hold a credential named `name`
Rows(name) == { j \in DOMAIN credentials : credentials[j].name = name }

\* C1: whatever was listed and in whatever order the lookups completed and were
\* collected, the list scan() returns is in ascending order of name, names being
\* compared codepoint by codepoint (so "B" sorts before "a").
C1_ResultSortedByName ==
    Returned =>
        \A i, j \in DOMAIN credentials :
            i < j => StrLeq(credentials[i].name, credentials[j].name)

\* a returned scan of two profiles listed in descending order, one of them
\* upper-case: the result holds them in the opposite order
C1_Witness ==
    /\ Returned
    /\ listing.names = << <<"a">>, <<"B">> >>
    /\ credentials[1].name = <<"B">>
    /\ credentials[2].name = <<"a">>

\* C2: when the listing names N distinct profiles, the returned list has exactly N
\* credentials, exactly one for each listed name, however each lookup ended
\* (password, None, open network, admin rights required, any other exception).
C2_OneCredentialPerListedName ==
    (Returned /\ Distinct(listing.names)) =>
        /\ Len(credentials) = Len(listing.names)
        /\ \A i \in DOMAIN listing.names : Cardinality(Rows(listing.names[i])) = 1
        /\ \A j \in DOMAIN credentials :
              \E i \in DOMAIN listing.names : credentials[j].name = listing.names[i]

\* a returned scan of two distinct profiles, one lookup raised an exception of an
\* unknown type and the other returned None
C2_Witness ==
    /\ Returned
    /\ Len(listing.names) = 2
    /\ Distinct(listing.names)
    /\ \E i, k \in DOMAIN future :
          /\ future[i].kind = "raise" /\ future[i].exc = "OSError"
          /\ future[k].kind = "return" /\ future[k].value = PyNone

ListingFailed == listing.kind # "exit0"

\* C3: scan() raises ScannerServiceException exactly when the listing command
\* fails; with a listing that succeeded it never raises, whatever the lookups do,
\* and while a lookup is not yet collected some lookup can always take a further
\* step (a lookup that failed never blocks the collection of the others; with
\* every lookup collected the scan returns).
C3_RaisesIffListingFails ==
    /\ pc = "raised" => ListingFailed
    /\ (pc # "start" /\ ListingFailed) => pc = "raised"
    /\ (pc = "collect" /\ \E i \in DOMAIN status : status[i] # "collected") =>
          ENABLED (\E i \in DOMAIN status :
                      StartLookup(i) \/ FinishLookup(i) \/ Collect(i))

\* a scan that returned normally although one of its lookups raised
C3_Witness ==
    /\ Returned
    /\ ~ListingFailed
    /\ \E i \in DOMAIN future : future[i].kind = "raise" /\ future[i].exc = "OSError"

\* C4: no two credentials of a returned scan have the same name, also when the
\* listing output names the same profile on more than one line.
C4_NamesUnique ==
    Returned => \A i, j \in DOMAIN credentials :
                    credentials[i].name = credentials[j].name => i = j

\* the futures whose lookup has ended
Finished == { i \in DOMAIN status : status[i] \in {"done", "collected"} }

\* the command result the lookup of future i received
Received(i) == netsh_show_profile(answer[i])

HasMarker(text) ==
    \E n \in 1..Len(NETSH_KEYS.profile_not_found) :
        TextContains(LowerText(text), NETSH_KEYS.profile_not_found[n])

\* the outcome tag of a finished lookup
OutcomeTag(i) ==
    IF Received(i).kind = "nonzero"
    THEN IF HasMarker(Received(i).stdout) THEN "NotFound" ELSE "UnexpectedError"
    ELSE IF Received(i).kind = "oserror" THEN "UnexpectedError"
    ELSE IF future[i].kind = "return" THEN "Recovered"
    ELSE IF future[i].exc = "OpenNetworkException" THEN "OpenNetwork"
    ELSE IF future[i].exc = "AdminRightsRequiredError" THEN "AdminRightsRequired"
    ELSE "UnexpectedError"

\* the password the returned list shows for the (distinctly named) profile i
Shown(i) == credentials[CHOOSE j \in Rows(profiles[i]) : TRUE].password

\* C5: in a returned scan of distinctly named profiles, a profile whose outcome is
\* not Recovered has a status text, never None, as its password, and two profiles
\* with different non-Recovered outcomes have different passwords.
C5_EveryOutcomeHasItsOwnPlaceholder ==
    (Returned /\ Distinct(profiles)) =>
        /\ \A i \in DOMAIN profiles :
              OutcomeTag(i) # "Recovered" => Shown(i).tag = "str"
        /\ \A i, k \in DOMAIN profiles :
              (/\ OutcomeTag(i) # "Recovered"
               /\ OutcomeTag(k) # "Recovered"
               /\ OutcomeTag(i) # OutcomeTag(k)) => Shown(i) # Shown(k)

\* C6: a query that exits non-zero with a not-found marker in its output never
\* makes scan() raise, and the returned list holds a credential for that profile
\* whose password is a placeholder status string.
C6_NotFoundShownAsPlaceholder ==
    \A i \in Finished :
        (Received(i).kind = "nonzero" /\ HasMarker(Received(i).stdout)) =>
            /\ pc # "raised"
            /\ Returned =>
                  \E j \in Rows(profiles[i]) : credentials[j].password.tag = "str"

ProviderLogged(i, level) == LogRecord("provider", i, level) \in log

\* what scan() makes of a query that exited non-zero and was logged at `level`
FailedQueryHandled(i, level) ==
    /\ ProviderLogged(i, level)
    /\ \A other \in {"info", "warning"} \ {level} : ~ProviderLogged(i, other)
    /\ pc # "raised"
    /\ Returned => Rows(profiles[i]) # {}

Expected(i) ==
    NetworkCredential(profiles[i],
                      IF future[i].kind = "raise"
                         /\ future[i].exc \notin {"OpenNetworkException",
                                                  "AdminRightsRequiredError",
                                                  "PasswordNotFoundError"}
                      THEN get_string("status_general_error", <<>>)
                      ELSE credential_password(future[i]),
                      "WiFi")

\* C8: a lookup that raises an exception of no known outcome type never makes
\* scan() raise; the returned list holds, for that profile, a credential with the
\* general-error status text, and for every other profile the credential its own
\* lookup produces, as many times as the profile was listed.
C8_UnknownExceptionBecomesGeneralError ==
    (\E i \in Finished : future[i].kind = "raise" /\ future[i].exc = "OSError") =>
        /\ pc # "raised"
        /\ Returned =>
              /\ Len(credentials) = Len(profiles)
              /\ \A i \in DOMAIN profiles :
                    Cardinality({ j \in DOMAIN credentials : credentials[j] = Expected(i) })
                        = Cardinality({ k \in DOMAIN profiles : Expected(k) = Expected(i) })

\* a returned scan of two profiles: the lookup of one raised OSError, the other
\* recovered a key
C8_Witness ==
    /\ Returned
    /\ \E i, k \in DOMAIN profiles :
          /\ future[i].kind = "raise" /\ future[i].exc = "OSError"
          /\ credentials[CHOOSE j \in DOMAIN credentials : credentials[j].name = profiles[i]]
                .password = get_string("status_general_error", <<>>)
          /\ profiles[i] # profiles[k]
          /\ answer[k] = "KeyShown"

Queued == { i \in DOMAIN status : status[i] = "queued" }

\* C9: at no moment are more than 10 lookups in flight, however many profiles
\* were listed; a queued lookup is never stuck (a worker can take it, or lookups
\* are in flight whose end frees a worker), and scan() returns only after the
\* lookup of every listed profile was started and has ended.
C9_AtMostTenInFlight ==
    /\ Cardinality(InFlight) <= 10
    /\ (pc = "collect" /\ Queued # {}) =>
          \/ InFlight # {}
          \/ \E i \in Queued : ENABLED StartLookup(i)
    /\ Returned => \A i \in 1..Len(listing.names) : answer[i] # NoAnswer

\* eleven profiles listed: ten lookups in flight, the eleventh still queued
C9_Witness ==
    /\ Len(profiles) = 11
    /\ Cardinality(InFlight) = 10
    /\ status[11] = "queued"

Called == qout.outcome # NoOutcome

\* the fields _parse_netsh_output finds in the output the call received
Fields == parse_netsh_output(CommandExecutor_run(qin.res).stdout)

KeyContentLabels ==
    { NETSH_KEYS.key_content[n] : n \in 1..Len(NETSH_KEYS.key_content) }

\* C10: when the command succeeded and the parsed fields hold a key-content label,
\* get_password returns the value of a key-content label as the password, whatever
\* the security-key and authentication fields say.
C10_KeyContentWins ==
    (Called /\ qin.res.kind = "exit0" /\ KeyContentLabels \cap DOMAIN Fields # {}) =>
        /\ qout.outcome.kind = "return"
        /\ \E label \in KeyContentLabels \cap DOMAIN Fields :
              qout.outcome.value = PyStr(Fields[label])

\* a call whose output says the security key is absent and also shows a key: the
\* key is returned
C10_Witness ==
    /\ Called
    /\ <<"Security", " ", "key">> \in DOMAIN Fields
    /\ Fields[<<"Security", " ", "key">>] = <<"Absent">>
    /\ <<"Key", " ", "Content">> \in DOMAIN Fields
    /\ qout.outcome = [kind |-> "return", exc |-> "", value |-> PyStr(<<"s3cret">>)]

SecurityKeyLabels ==
    { NETSH_KEYS.security_key[n] : n \in 1..Len(NETSH_KEYS.security_key) }

AuthenticationLabels ==
    { NETSH_KEYS.authentication[n] : n \in 1..Len(NETSH_KEYS.authentication) }

\* the call received the output of a successful query that shows no key
NoKeyShown ==
    /\ Called
    /\ qin.res.kind = "exit0"
    /\ KeyContentLabels \cap DOMAIN Fields = {}

\* some security-key label is present with a value that says the key is absent
SaysKeyAbsent ==
    \E label \in SecurityKeyLabels \cap DOMAIN Fields :
        AnyIn(NETSH_KEYS.security_key_absent, Fields[label])

\* some authentication label is present with a value that says open
SaysAuthOpen ==
    \E label \in AuthenticationLabels \cap DOMAIN Fields :
        AnyIn(NETSH_KEYS.auth_open, Fields[label])

\* C11: when the parsed fields hold no key-content label and a security-key label
\* with an absent value or an authentication label with an open value is present,
\* get_password raises OpenNetworkException and scan() puts the localized
\* open-network status text into the credential.
C11_AbsentOrOpenIsOpenNetwork ==
    (NoKeyShown /\ (SaysKeyAbsent \/ SaysAuthOpen)) =>
        /\ qout.outcome.kind = "raise"
        /\ qout.outcome.exc = "OpenNetworkException"
        /\ credential_password(qout.outcome) = get_string("status_open_network", <<>>)

AdminRightsMessage(profile) ==
    get_string("error_password_not_found_admin_required", profile)

Runs(cmd) == IF cmd \in DOMAIN calls THEN calls[cmd] ELSE 0

\* C13: when the listing command succeeds and names no profile, scan() returns an
\* empty list at once: it does not raise, submits no lookup, logs nothing and
\* runs no command other than the one listing invocation.
C13_NoProfilesNoQueries ==
    (pc # "start" /\ ~ListingFailed /\ listing.names = <<>>) =>
        /\ Returned
        /\ credentials = <<>>
        /\ status = <<>>
        /\ log = {}
        /\ DOMAIN calls = { << <<"netsh">>, <<"wlan">>, <<"show">>, <<"profiles">> >> }

\* a scan of a host whose listing shows only the header lines has returned
C13_Witness ==
    /\ Returned
    /\ ~ListingFailed
    /\ profiles = <<>>
    /\ Runs(list_command) = 1

\* the number of listing lines that name the profile `name`
Listed(name) == Cardinality({ i \in DOMAIN listing.names : listing.names[i] = name })

\* cmd is a six-element query vector carrying a listed name whole in its fifth argument
IsQueryVector(cmd) ==
    /\ Len(cmd) = 6
    /\ SubSeq(cmd, 1, 4) = << <<"netsh">>, <<"wlan">>, <<"show">>, <<"profile">> >>
    /\ cmd[6] = <<"key=clear">>
    /\ \E i \in DOMAIN listing.names : cmd[5] = listing.names[i]

\* C18: the only argument vectors the command runner ever receives during a scan
\* are the four-element listing vector, exactly once, and six-element query
\* vectors whose fifth argument is a listed profile name in one piece (spaces
\* included); when scan() has returned, the query vector of every listed name
\* was run exactly as many times as the name was listed, and when the listing
\* failed no query was run.
C18_OnlyTheTwoInvocationShapes ==
    /\ \A cmd \in DOMAIN calls :
          \/ cmd = << <<"netsh">>, <<"wlan">>, <<"show">>, <<"profiles">> >>
          \/ IsQueryVector(cmd) /\ calls[cmd] <= Listed(cmd[5])
    /\ pc # "start" =>
          Runs(<< <<"netsh">>, <<"wlan">>, <<"show">>, <<"profiles">> >>) = 1
    /\ pc = "raised" => Cardinality(DOMAIN calls) = 1
    /\ Returned =>
          \A i \in DOMAIN listing.names :
              \E cmd \in DOMAIN calls :
                  /\ IsQueryVector(cmd)
                  /\ cmd[5] = listing.names[i]
                  /\ calls[cmd] = Listed(listing.names[i])

\* a returned scan of the profiles "a b" and "a": each was queried once, the
\* name with the space as one argument
C18_Witness ==
    /\ Returned
    /\ listing.names = << <<"a", " ", "b">>, <<"a">> >>
    /\ Runs(<< <<"netsh">>, <<"wlan">>, <<"show">>, <<"profile">>,
                <<"a", " ", "b">>, <<"key=clear">> >>) = 1
    /\ Runs(<< <<"netsh">>, <<"wlan">>, <<"show">>, <<"profile">>,
                <<"a">>, <<"key=clear">> >>) = 1
    /\ Cardinality(DOMAIN calls) = 3

\* the worker's scan() has failed and the worker has dealt with the failure
ScanFailureHandled == pc \in {"finally", "idle"} /\ ListingFailed /\ reported # <<>>

\* C14: a scan() that fails in the worker is reported through on_error with the
\* scan-error message; once the worker has ended is_scanning is False again, so
\* the controller is never left in the scanning state without a worker, and the
\* next start_scan_thread call of an admin user starts a new worker.
C14_FailedScanResetsScanning ==
    /\ (pc = "finally" /\ ListingFailed) =>
          reported[Len(reported)] = OnError("error_occurred_during_scan")
    /\ pc = "idle" => ~is_scanning
    /\ is_scanning => pc # "idle"
    /\ (pc = "idle" /\ admin /\ clicks < MaxClicks) =>
          ENABLED (StartScanThread /\ is_scanning' /\ pc' = "spawned")

\* a scan failed, was reported through on_error, and a second worker was started
C14_Witness ==
    /\ pc = "spawned"
    /\ is_scanning
    /\ clicks = 2
    /\ reported = << OnError("error_occurred_during_scan") >>

\* a single provider call was made and its outcome is in qout
CallMade == qout.outcome.kind # "none"

\* the lines of the output the call received from the command runner
ReceivedLines == CommandExecutor_run(qin.res).stdout

\* the line holds a recognized all-user-profile label followed by a colon
HasProfileLabel(line) == LabelColons(line) # {}

\* the text after the colon of the (first) label of a matching line, trimmed
TextAfterLabelColon(line) == Strip(SubSeq(line, Min(LabelColons(line)) + 1, Len(line)))

\* the matching lines of the received output, in order
MatchingLines == SelectSeq(ReceivedLines, HasProfileLabel)

\* C15: list_profiles on an output with k lines that match an all-user-profile
\* label returns exactly k names, the j-th name being the whole text after the
\* label's colon on the j-th matching line; the other lines contribute nothing.
C15_OneNamePerMatchingLine ==
    (CallMade /\ qin.res.kind = "exit0") =>
        /\ qout.outcome.kind = "return"
        /\ Len(qout.outcome.value) = Len(MatchingLines)
        /\ \A j \in 1..Len(MatchingLines) :
              j \in DOMAIN qout.outcome.value =>
                  qout.outcome.value[j] = TextAfterLabelColon(MatchingLines[j])

\* the lines of the output given to _parse_netsh_output
ParsedLines == qin.res.stdout

\* the positions of those lines that hold a colon
ColonLines == { i \in DOMAIN ParsedLines : Colons(ParsedLines[i]) # {} }

\* label and value of such a line: the text before and after its first colon,
\* without surrounding whitespace
LineLabel(i) ==
    Strip(SubSeq(ParsedLines[i], 1, Min(Colons(ParsedLines[i])) - 1))
LineValue(i) ==
    Strip(SubSeq(ParsedLines[i], Min(Colons(ParsedLines[i])) + 1, Len(ParsedLines[i])))

\* C16: the mapping _parse_netsh_output builds has exactly the trimmed labels
\* of the lines of the form label : value as its keys, and maps each label to
\* the trimmed value of the last line that carries this label.
C16_LastOccurrenceWins ==
    CallMade =>
        /\ DOMAIN qout.outcome.value = { LineLabel(i) : i \in ColonLines }
        /\ \A i \in ColonLines :
              (\A j \in ColonLines : LineLabel(j) = LineLabel(i) => j <= i) =>
                  qout.outcome.value[LineLabel(i)] = LineValue(i)

\* an output that gives the same padded label twice with different values: the
\* mapping holds the second value
C16_Witness ==
    /\ CallMade
    /\ ParsedLines = << FieldLine(<<"Authentication">>, <<"Open">>),
                        FieldLine(<<"Authentication">>, <<"WPA2", "-", "Personal">>) >>
    /\ qout.outcome.value =
          [label \in { <<"Authentication">> } |-> <<"WPA2", "-", "Personal">>]

\* C17: get_password gives the same outcome (the same return value, or the same
\* exception with the same message, and the same log severity) on an output in
\* English and on that output with every label and value replaced by its
\* Spanish variant.
C17_SpanishOutputSameOutcome ==
    (Called /\ qes.outcome # NoOutcome) => qes = qout

\* both calls were made on an open profile: the English output says
\* Authentication : Open, its twin Autenticación : Abierta
C17_Witness ==
    /\ Called
    /\ qin.res.stdout = << <<>>, FieldLine(<<"Authentication">>, <<"Open">>) >>
    /\ Spanish(qin.res).stdout = << <<>>, FieldLine(<<"Autenticación">>, <<"Abierta">>) >>
    /\ qes.outcome.exc = "OpenNetworkException"

\* which of the two methods the single call was made to
ListProfilesCalled == CallMade /\ list_command \in DOMAIN calls
GetPasswordCalled == CallMade /\ list_command \notin DOMAIN calls

\* C19: NetshWifiProvider.list_profiles never raises; when the listing command
\* fails (non-zero exit, or the process cannot be started) it returns the empty
\* list, and the command runner was invoked exactly once, with the listing
\* vector.
C19_ListingFailureGivesEmptyList ==
    ListProfilesCalled =>
        /\ qout.outcome.kind = "return"
        /\ qin.res.kind # "exit0" => qout.outcome.value = <<>>
        /\ DOMAIN calls = { << <<"netsh">>, <<"wlan">>, <<"show">>, <<"profiles">> >> }
        /\ Runs(<< <<"netsh">>, <<"wlan">>, <<"show">>, <<"profiles">> >>) = 1

\* list_profiles was called and the command exited non-zero
C19_Witness ==
    /\ ListProfilesCalled
    /\ qin.res.kind = "nonzero"
    /\ qout.outcome = [kind |-> "return", exc |-> "", value |-> <<>>]

\* some line of the received output holds the key-content label of the locale
\* the provider was constructed under
KeyContentLinePresent ==
    /\ qin.res.kind = "exit0"
    /\ \E i \in DOMAIN ReceivedLines :
          Contains(ReceivedLines[i], current_lang_strings(qin.locale).key_content_prefix)

\* C20: NetshWifiProvider.get_password never raises; it returns None when the
\* command fails and when the output has no line with the key-content label of
\* the active locale, so a value other than None is returned only for an output
\* with such a line; the command runner was invoked exactly once.
C20_NoneWithoutKeyContentLine ==
    GetPasswordCalled =>
        /\ qout.outcome.kind = "return"
        /\ ~KeyContentLinePresent => qout.outcome.value = PyNone
        /\ qout.outcome.value # PyNone =>
              qin.res.kind = "exit0" /\ qout.outcome.value.tag = "str"
        /\ Cardinality(DOMAIN calls) = 1
        /\ Runs(NetshWifiProvider_query_command(qin.profile)) = 1

\* get_password under a Spanish locale on the output of an open network whose
\* only key line is in English: None is returned
C20_Witness ==
    /\ GetPasswordCalled
    /\ qin.locale = "es_ES"
    /\ qin.res.stdout = << FieldLine(<<"Authentication">>, <<"Open">>),
                           FieldLine(<<"Key", " ", "Content">>, <<"s3cret">>) >>
    /\ qout.outcome.value = PyNone

\* the lines of a str: the pieces between its line breaks (str.splitlines)
RECURSIVE SplitLines(_)
SplitLines(flat) ==
    IF flat = <<>> THEN <<>>
    ELSE LET breaks == { i \in DOMAIN flat : flat[i] = "\n" }
             b == IF breaks = {} THEN Len(flat) + 1 ELSE Min(breaks)
         IN  <<SubSeq(flat, 1, b - 1)>> \o SplitLines(SubSeq(flat, b + 1, Len(flat)))

\* the line that shows credential c: name = password-or-placeholder
CredentialLine(c) == c.name \o <<" ", "=", " ">> \o py_str(c.password)

\* the lines the report has before and after its credentials
ReportHeaderLines == 14
ReportFooterLines == 3

\* C21: the text format_credentials_to_string produces, for display and inside
\* the report, has exactly one line per credential of the scan result, in the scan
\* result's order, each of the form name = password-or-placeholder; it is the
\* empty text for an empty scan result.
C21_OneLinePerCredential ==
    CallMade =>
        LET creds == qin.credentials
            lines == SplitLines(qout.outcome.value)
            shown == [i \in DOMAIN creds |-> CredentialLine(creds[i])]
        IN  IF qin.call = "format_credentials_for_display"
            THEN /\ lines = shown
                 /\ creds = <<>> => qout.outcome.value = NoText
            ELSE /\ Len(lines) = ReportHeaderLines + Len(creds) + ReportFooterLines
                 /\ SubSeq(lines, ReportHeaderLines + 1, ReportHeaderLines + Len(creds))
                        = shown

\* a report made of a scan result that holds a recovered key and a credential
\* without password
C21_Witness ==
    /\ CallMade
    /\ qin.call = "generate_report_content"
    /\ Len(qin.credentials) = 2
    /\ qin.credentials[1].password = PyStr(<<"s3cret">>)
    /\ qin.credentials[2].password = PyNone
    /\ Len(SplitLines(qout.outcome.value)) = ReportHeaderLines + 2 + ReportFooterLines

\* C22: at most one scan worker exists at any time, and a start_scan_thread
\* call made while is_scanning is True starts no thread, invokes neither
\* callback and leaves is_scanning (and the running scan) as it is, wherever the
\* calls fall between the starts and the completions of the scans.
C22_OneWorkerAtATime ==
    /\ [](workers <= 1)
    /\ [][(is_scanning /\ clicks' = clicks + 1) =>
              /\ workers' = workers
              /\ reported' = reported
              /\ is_scanning' = is_scanning
              /\ pc' = pc]_vars

\* a second call was made while the worker of the first had not yet reported
C22_Witness ==
    /\ admin
    /\ clicks = 2
    /\ reported = <<>>
    /\ is_scanning
    /\ workers = 1

\* a command invocation of the scan never terminates
ListingHangs == pc = "start" /\ listing.kind = "hang"
HungLookups == { i \in DOMAIN answer : answer[i] = Hang }

\* C23: scan() returns exactly when every scheduled lookup has finished.  Every
\* scan in which no command invocation hangs terminates, and is_scanning is then
\* reset to False by the worker; while a lookup hangs scan() does not return and
\* is_scanning stays True; every other lookup is still completed and collected.
C23_ReturnsWhenAllLookupsFinished ==
    /\ <>(ListingHangs \/ HungLookups # {} \/ (pc = "idle" /\ ~is_scanning))
    /\ [](HungLookups # {} => (pc = "collect" /\ is_scanning))
    /\ [](pc = "returned" => \A i \in DOMAIN status : status[i] = "collected")
    /\ \A i \in 1..MaxProfiles :
          (i \in DOMAIN status) ~>
              (i \in DOMAIN status /\ (status[i] = "collected" \/ answer[i] = Hang))

\* one lookup hangs while another one has been completed and collected
C23_Witness ==
    /\ pc = "collect"
    /\ \E i, j \in DOMAIN status : answer[i] = Hang /\ status[j] = "collected"

\* C24: during a scan the list of credentials is written only by the thread
\* that runs scan(): every change of the list is an append made by an iteration
\* of the as_completed loop, or the final sort; a step of a pool worker (taking a
\* task, ending its get_password call) stores its result in its future and
\* leaves the list as it is.
C24_OnlyTheCollectingThreadWritesTheList ==
    [][/\ credentials' # credentials =>
            ((\E i \in DOMAIN status : Collect(i)) \/ Return)
       /\ (\E i \in DOMAIN status : StartLookup(i) \/ FinishLookup(i)) =>
            credentials' = credentials]_vars

\* a credential has been appended while the lookup of another profile is running
C24_Witness ==
    /\ pc = "collect"
    /\ credentials # <<>>
    /\ \E i, j \in DOMAIN status : status[i] = "running" /\ status[j] = "collected"

\* C25: in a process without administrator privileges every start_scan_thread
\* call invokes on_error once, with the admin-privileges-required message, and
\* nothing else happens: no worker thread is started, no command is invoked, no
\* scan position is entered and is_scanning stays False.
C25_NoScanWithoutAdminRights ==
    ~admin =>
        /\ workers = 0
        /\ pc = "idle"
        /\ calls = NoCalls
        /\ ~is_scanning
        /\ Len(reported) = clicks
        /\ \A k \in DOMAIN reported : reported[k] = OnError("admin_privileges_required")

\* two calls were made without administrator privileges
C25_Witness ==
    /\ ~admin
    /\ clicks = 2
    /\ Len(reported) = 2

\* the lookups whose result the loop has taken
Collected == { i \in DOMAIN status : status[i] = "collected" }

\* the outcome of the get_password call that was issued for the name of lookup i
OutcomeForItsName(i) == lookup_outcome[answer[i]][profiles[i]]

\* C26: the credentials held by scan() correspond one to one to the collected
\* lookups: each credential carries the profile name of one lookup together with
\* the password or status text made of the outcome of the get_password call
\* issued for that name, in whatever order the lookups complete.
C26_NamePairedWithItsOwnOutcome ==
    \E lookup \in [DOMAIN credentials -> Collected] :
        /\ \A k, l \in DOMAIN credentials : lookup[k] = lookup[l] => k = l
        /\ \A k \in DOMAIN credentials :
              credentials[k] =
                  NetworkCredential(profiles[lookup[k]],
                                    credential_password(OutcomeForItsName(lookup[k])),
                                    "WiFi")

\* two profiles with different outcomes, returned in the reverse of the listing order
C26_Witness ==
    /\ pc = "returned"
    /\ Len(credentials) = 2
    /\ credentials[1].name = profiles[2]
    /\ credentials[1].name # credentials[2].name
    /\ credentials[1].password # credentials[2].password

\* the worker leaves its try/except: the step in which it invokes the callbacks
WorkerReports == pc \in {"returned", "raised"} /\ pc' = "finally"

\* C28: a worker invokes exactly one callback, exactly once: on_success after a
\* scan() that returned, on_error after one that raised, never both; no callback
\* is invoked at any other point of an admin process; and is_scanning is reset to
\* False only after that invocation, in the finally clause.
C28_ExactlyOneCallbackPerWorker ==
    [][/\ WorkerReports =>
            reported' = Append(reported,
                               IF pc = "returned" THEN OnSuccess(credentials)
                               ELSE OnError("error_occurred_during_scan"))
       /\ (admin /\ reported' # reported) => WorkerReports
       /\ (is_scanning /\ ~is_scanning') => pc = "finally"]_vars

\* a scan was started and its worker has not yet invoked a callback
ScanUnderWay == pc \in {"spawned", "start", "collect", "returned", "raised"}

\* a callback's update_ui is registered and has not run yet
OutcomePending == tk.events # <<>>

\* the text box shows a frame of the spinner
ShowsSpinner == \E i \in 0..(Len(SPINNER) - 1) : gui.text_box = SpinnerText(i)

\* C27: once the outcome of a finished scan is rendered, the spinner does not
\* overwrite it before the next scan starts: whenever the text box shows the
\* spinner, a scan is under way or an outcome is still to be rendered.
C27_SpinnerNeverOverwritesTheOutcome ==
    ShowsSpinner => (ScanUnderWay \/ OutcomePending)

C30_ButtonsEnabledOnlyWhenNotScanning ==
    (tk.pc = "mainloop" /\ clicks > 0 /\ gui.buttons_enabled) => ~is_scanning

====
